---- MODULE Spec2Model ----
(***************************************************************************)
(* Model of the USB HID acquisition and report-decoding engine of          *)
(* hms-esp-apc: the report decoder (apc_hid_parser.c), the two transfer    *)
(* operations and the session callback (usb_host_manager.c), and the poll  *)
(* loop of usb_host_task.                                                  *)
(*                                                                         *)
(* Conventions.  A C byte buffer data[0..n-1] is the sequence data with    *)
(* data[k] of C being data[k+1] here (operator At).  A float field holds   *)
(* an exact decimal value and is stored in hundredths: 12.34f is 1234.     *)
(* Strings are TLA+ strings.                                               *)
(***************************************************************************)
EXTENDS Integers, Sequences, FiniteSets, TLC

VARIABLES
    metrics,        \* current_metrics, the shared snapshot (ups_metrics_t)
    now,            \* tick count in ms read by the latest decode
    last,           \* the latest decode: identifier, return value, fields assigned
    ups_connected,  \* static bool ups_connected
    ups_device,     \* static usb_device_handle_t ups_device (0 is NULL)
    transfer_mutex, \* holder of transfer_mutex (0 when free)
    transfer_done,  \* binary semaphore: "NULL" (not created), "EMPTY", "GIVEN"
    xfers,          \* transfers the USB platform or a caller still refers to
    evq,            \* client event messages not yet delivered to the callback
    devs,           \* devices seen by the USB platform, indexed by handle
    pc,             \* position of each calling context
    L,              \* locals of each calling context
    task,           \* locals of usb_host_task: loop_count, error_count, i
    faults,         \* number of non-nominal events the environment has produced
    dev_val,        \* the byte value the attached device fills its reports with
    app             \* main.c: test_metrics of simulate_ups_data_task, the publish task

(***************************************************************************)
(* Bounds of the model.                                                    *)
(***************************************************************************)
\* number of bytes of a report buffer that the model keeps (C indices 0..BufLen-1)
BufLen == 5
\* number of decodes in a behaviour of SpecDecode
MaxDecodes == 2

\* values a payload byte is drawn from
ByteVals == {0, 255}

(***************************************************************************)
(* Report decoder: apc_hid_parser.c                                        *)
(***************************************************************************)
At(data, k) == data[k + 1]

\* data[lo] | (data[hi] << 8), assigned to a uint16_t
U16(lo, hi) == lo + 256 * hi

\* (int16_t) of a 16-bit value: two's complement
S16(x) == IF x >= 32768 THEN x - 65536 ELSE x

\* (float)x, in hundredths
F(x) == 100 * x

Digits == <<"0", "1", "2", "3", "4", "5", "6", "7", "8", "9">>

RECURSIVE DecStr(_)
\* printf %d of a non-negative int
DecStr(n) ==
    IF n < 10 THEN Digits[n + 1]
    ELSE DecStr(n \div 10) \o Digits[(n % 10) + 1]

RECURSIVE ZeroPad(_, _)
\* printf %0<w>d of a non-negative int
ZeroPad(n, w) ==
    IF Len(DecStr(n)) >= w THEN DecStr(n)
    ELSE "0" \o (IF w > 1 THEN ZeroPad(n, w - 1) ELSE DecStr(n))

NoStatus ==
    [online |-> FALSE, discharging |-> FALSE, charging |-> FALSE,
     low_battery |-> FALSE, overload |-> FALSE, replace_battery |-> FALSE,
     boost |-> FALSE, trim |-> FALSE]

\* memset(&current_metrics, 0, ...) followed by the defaults
InitMetrics ==
    [battery_charge |-> 0, battery_voltage |-> 0, battery_runtime |-> 0,
     battery_nominal_voltage |-> 0, battery_warning_threshold |-> 0,
     battery_type |-> "PbAc", battery_mfr_date |-> "",
     input_voltage |-> 0, input_voltage_nominal |-> 0, input_frequency |-> 0,
     output_voltage |-> 0, load_percent |-> 0, nominal_power |-> 0,
     high_voltage_transfer |-> 0, low_voltage_transfer |-> 0,
     input_sensitivity |-> "", last_transfer_reason |-> "",
     low_battery_charge_threshold |-> 0, low_battery_runtime_threshold |-> 0,
     shutdown_delay |-> 0, shutdown_timer |-> 0, reboot_timer |-> 0,
     delay_before_reboot |-> 0, delay_before_shutdown |-> 0,
     firmware_version |-> "", driver_name |-> "esp32-usb-hid",
     driver_state |-> "running", driver_version |-> "1.0.0",
     beeper_status |-> "", self_test_result |-> "",
     power_failure_status |-> "OK",
     status |-> NoStatus, status_string |-> "",
     last_update_ms |-> 0, valid |-> FALSE]

\* strncat(buffer, tok, ...) preceded by a space when buffer is not empty
StrCat(buffer, tok) == IF Len(buffer) > 0 THEN buffer \o " " \o tok ELSE tok

\* faulty variant of apc_hid_format_status: "OB" is appended for discharging
\* whether or not online is set
apc_hid_format_status_BothTokens(status) ==
    LET b0 == IF status.online THEN "OL" ELSE ""
        b1 == IF status.discharging THEN StrCat(b0, "OB") ELSE b0
        b2 == IF status.charging THEN StrCat(b1, "CHRG") ELSE b1
        b3 == IF status.low_battery THEN StrCat(b2, "LB") ELSE b2
        b4 == IF status.overload THEN StrCat(b3, "OVER") ELSE b3
        b5 == IF status.replace_battery THEN StrCat(b4, "RB") ELSE b4
        b6 == IF status.boost THEN StrCat(b5, "BOOST") ELSE b5
        b7 == IF status.trim THEN StrCat(b6, "TRIM") ELSE b6
    IN  IF Len(b7) = 0 THEN "UNKNOWN" ELSE b7

apc_hid_format_status(status) ==
    LET b0 == IF status.online THEN "OL"
              ELSE IF status.discharging THEN "OB" ELSE ""
        b1 == IF status.charging THEN StrCat(b0, "CHRG") ELSE b0
        b2 == IF status.low_battery THEN StrCat(b1, "LB") ELSE b1
        b3 == IF status.overload THEN StrCat(b2, "OVER") ELSE b2
        b4 == IF status.replace_battery THEN StrCat(b3, "RB") ELSE b3
        b5 == IF status.boost THEN StrCat(b4, "BOOST") ELSE b4
        b6 == IF status.trim THEN StrCat(b5, "TRIM") ELSE b5
    IN  IF Len(b6) = 0 THEN "UNKNOWN" ELSE b6

\* strncpy(dst, src, n) into a field whose bytes from n on are zero: src when
\* it has at most n characters, its first n characters otherwise
Strncpy(src, n) == IF Len(src) <= n THEN src ELSE SubSeq(src, 1, n)

\* result of one case of the switch: the target after it and the updated flag
Upd(m) == [m |-> m, updated |-> TRUE]
NoUpd(m) == [m |-> m, updated |-> FALSE]

\* faulty variant of Case0C: the length guard is one byte short
Case0C_ShortGuard(data, length, t) ==
    IF length >= 3
    THEN Upd([t EXCEPT !.battery_charge = F(At(data, 1)),
                       !.battery_runtime = F(U16(At(data, 2), At(data, 3)))])
    ELSE NoUpd(t)

\* faulty variant of Case0C: the runtime bytes are taken high byte first
Case0C_HighByteFirst(data, length, t) ==
    IF length >= 4
    THEN Upd([t EXCEPT !.battery_charge = F(At(data, 1)),
                       !.battery_runtime = F(U16(At(data, 3), At(data, 2)))])
    ELSE NoUpd(t)

Case0C(data, length, t) ==
    IF length >= 4
    THEN Upd([t EXCEPT !.battery_charge = F(At(data, 1)),
                       !.battery_runtime = F(U16(At(data, 2), At(data, 3)))])
    ELSE NoUpd(t)

\* faulty variant of Case06: the status byte is read with the bit positions
\* of report 0x16
Case06_BitsOf16(data, length, t) ==
    IF length >= 4
    THEN LET status_byte == At(data, 3)
         IN  Upd([t EXCEPT !.status.online = status_byte % 2 = 1,
                           !.status.discharging = (status_byte \div 2) % 2 = 1,
                           !.status.charging = (status_byte \div 4) % 2 = 1,
                           !.status.low_battery = (status_byte \div 8) % 2 = 1])
    ELSE NoUpd(t)

\* faulty variant of Case06: the four flags the report does not carry are cleared
Case06_ClearsRest(data, length, t) ==
    IF length >= 4
    THEN LET status_byte == At(data, 3)
         IN  Upd([t EXCEPT !.status.online = (status_byte \div 8) % 2 = 1,
                           !.status.discharging = status_byte % 2 = 1,
                           !.status.charging = (status_byte \div 2) % 2 = 1,
                           !.status.low_battery = (status_byte \div 4) % 2 = 1,
                           !.status.overload = FALSE,
                           !.status.replace_battery = FALSE,
                           !.status.boost = FALSE,
                           !.status.trim = FALSE])
    ELSE NoUpd(t)

Case06(data, length, t) ==
    IF length >= 4
    THEN LET status_byte == At(data, 3)
         IN  Upd([t EXCEPT !.status.online = (status_byte \div 8) % 2 = 1,
                           !.status.discharging = status_byte % 2 = 1,
                           !.status.charging = (status_byte \div 2) % 2 = 1,
                           !.status.low_battery = (status_byte \div 4) % 2 = 1])
    ELSE NoUpd(t)

Case08(data, length, t) ==
    IF length >= 3
    THEN Upd([t EXCEPT !.battery_nominal_voltage = U16(At(data, 1), At(data, 2))])
    ELSE NoUpd(t)

\* faulty variant of Case09: the target is rebuilt from the defaults
Case09_Wholesale(data, length, t) ==
    IF length >= 3
    THEN Upd([InitMetrics EXCEPT !.battery_voltage = U16(At(data, 1), At(data, 2))])
    ELSE NoUpd(t)

Case09(data, length, t) ==
    IF length >= 3
    THEN Upd([t EXCEPT !.battery_voltage = U16(At(data, 1), At(data, 2))])
    ELSE NoUpd(t)

Case0B(data, length, t) ==
    IF length >= 2
    THEN Upd([t EXCEPT !.battery_nominal_voltage = F(At(data, 1))])
    ELSE NoUpd(t)

Case0D(data, length, t) ==
    IF length >= 2
    THEN Upd([t EXCEPT !.battery_voltage = 10 * At(data, 1)])
    ELSE NoUpd(t)

\* logs the value only
\* faulty variant of Case0E: data[1] is stored as the low-battery charge
\* threshold
Case0E_StoresThreshold(data, length, t) ==
    IF length >= 2
    THEN Upd([t EXCEPT !.low_battery_charge_threshold = F(At(data, 1))])
    ELSE NoUpd(t)

Case0E(data, length, t) == NoUpd(t)

\* faulty variant of Case0F: the byte is added to the stored threshold
Case0F_Accumulates(data, length, t) ==
    IF length >= 2
    THEN Upd([t EXCEPT !.battery_warning_threshold = @ + F(At(data, 1))])
    ELSE NoUpd(t)

Case0F(data, length, t) ==
    IF length >= 2
    THEN Upd([t EXCEPT !.battery_warning_threshold = F(At(data, 1))])
    ELSE NoUpd(t)

beeper_state == <<"disabled", "enabled", "muted">>

\* faulty variant of Case10: a code outside the enumeration stores "unknown"
Case10_UnknownLabel(data, length, t) ==
    IF length >= 2
    THEN Upd([t EXCEPT !.beeper_status =
                IF At(data, 1) < 3 THEN beeper_state[At(data, 1) + 1]
                ELSE "unknown"])
    ELSE NoUpd(t)

Case10(data, length, t) ==
    IF length >= 2 /\ At(data, 1) < 3
    THEN Upd([t EXCEPT !.beeper_status = Strncpy(beeper_state[At(data, 1) + 1], 16 - 1)])
    ELSE NoUpd(t)

Case11(data, length, t) ==
    IF length >= 2
    THEN Upd([t EXCEPT !.low_battery_charge_threshold = F(At(data, 1))])
    ELSE NoUpd(t)

Case12(data, length, t) ==
    IF length >= 3
    THEN Upd([t EXCEPT !.low_battery_runtime_threshold =
                           F(U16(At(data, 1), At(data, 2)))])
    ELSE NoUpd(t)

Case15(data, length, t) ==
    IF length >= 3
    THEN Upd([t EXCEPT !.shutdown_timer = F(S16(U16(At(data, 1), At(data, 2))))])
    ELSE NoUpd(t)

Bit(b, k) == (b \div (2 ^ k)) % 2 = 1

Case16(data, length, t) ==
    IF length >= 2
    THEN LET present_status == At(data, 1)
         IN  Upd([t EXCEPT !.status =
                    [online |-> Bit(present_status, 0),
                     discharging |-> Bit(present_status, 1),
                     charging |-> Bit(present_status, 2),
                     low_battery |-> Bit(present_status, 3),
                     overload |-> Bit(present_status, 4),
                     replace_battery |-> Bit(present_status, 5),
                     boost |-> Bit(present_status, 6),
                     trim |-> Bit(present_status, 7)]])
    ELSE NoUpd(t)

Case17(data, length, t) ==
    IF length >= 3
    THEN Upd([t EXCEPT !.reboot_timer = F(U16(At(data, 1), At(data, 2)))])
    ELSE NoUpd(t)

test_results ==
    <<"No test initiated", "Test passed", "Test in progress",
      "General test failed", "Battery failed", "Deep battery test failed",
      "Test aborted">>

Case18(data, length, t) ==
    IF length >= 2 /\ At(data, 1) < 7
    THEN Upd([t EXCEPT !.self_test_result = Strncpy(test_results[At(data, 1) + 1], 64 - 1)])
    ELSE NoUpd(t)

Case1C(data, length, t) ==
    IF length >= 4
    THEN LET year == U16(At(data, 1), At(data, 2))
             month == IF length > 3 THEN At(data, 3) ELSE 1
             day == IF length > 4 THEN At(data, 4) ELSE 1
         IN  Upd([t EXCEPT !.battery_mfr_date =
                    ZeroPad(year, 4) \o "/" \o ZeroPad(month, 2) \o "/"
                        \o ZeroPad(day, 2)])
    ELSE NoUpd(t)

Case20(data, length, t) ==
    IF length >= 3
    THEN Upd([t EXCEPT !.battery_mfr_date =
                DecStr(U16(At(data, 1), At(data, 2))) \o " days"])
    ELSE NoUpd(t)

Case13(data, length, t) ==
    IF length >= 2
    THEN Upd([t EXCEPT !.delay_before_reboot = F(At(data, 1))])
    ELSE NoUpd(t)

Case14(data, length, t) ==
    IF length >= 2
    THEN Upd([t EXCEPT !.delay_before_shutdown = F(At(data, 1))])
    ELSE NoUpd(t)

Case24(data, length, t) ==
    IF length >= 3
    THEN Upd([t EXCEPT !.low_battery_runtime_threshold =
                           F(U16(At(data, 1), At(data, 2)))])
    ELSE NoUpd(t)

reasons ==
    <<"No transfer", "High line voltage", "Brownout", "Blackout",
      "Small momentary sag", "Deep momentary sag", "Small momentary spike",
      "Large momentary spike", "Self test", "Input frequency out of range",
      "Input voltage out of range">>

Case21(data, length, t) ==
    IF length >= 2 /\ At(data, 1) < 11
    THEN Upd([t EXCEPT !.last_transfer_reason =
                    Strncpy(reasons[At(data, 1) + 1], 64 - 1)])
    ELSE NoUpd(t)

Case25(data, length, t) ==
    IF length >= 3
    THEN Upd([t EXCEPT !.nominal_power = F(U16(At(data, 1), At(data, 2)))])
    ELSE NoUpd(t)

Case30(data, length, t) ==
    IF length >= 2
    THEN Upd([t EXCEPT !.input_voltage_nominal = F(At(data, 1))])
    ELSE NoUpd(t)

Case31(data, length, t) ==
    IF length >= 3
    THEN Upd([t EXCEPT !.input_voltage = F(U16(At(data, 1), At(data, 2)))])
    ELSE NoUpd(t)

Case32(data, length, t) ==
    IF length >= 3
    THEN Upd([t EXCEPT !.low_voltage_transfer = F(U16(At(data, 1), At(data, 2)))])
    ELSE NoUpd(t)

Case33(data, length, t) ==
    IF length >= 3
    THEN Upd([t EXCEPT !.high_voltage_transfer = F(U16(At(data, 1), At(data, 2)))])
    ELSE NoUpd(t)

Case50(data, length, t) ==
    IF length >= 2
    THEN Upd([t EXCEPT !.load_percent = F(At(data, 1))])
    ELSE NoUpd(t)

sensitivity == <<"low", "medium", "high">>

Case35(data, length, t) ==
    IF length >= 2 /\ At(data, 1) < 3
    THEN Upd([t EXCEPT !.input_sensitivity = Strncpy(sensitivity[At(data, 1) + 1], 16 - 1)])
    ELSE NoUpd(t)

\* faulty variant of Case36: a frequency of 0 is stored like any other
Case36_StoresZero(data, length, t) ==
    IF length >= 2
    THEN Upd([t EXCEPT !.input_frequency = F(At(data, 1))])
    ELSE NoUpd(t)

Case36(data, length, t) ==
    IF length >= 2 /\ At(data, 1) > 0
    THEN Upd([t EXCEPT !.input_frequency = F(At(data, 1))])
    ELSE NoUpd(t)

chemistry == <<"Unknown", "PbAc", "Li-ion", "NiCd", "NiMH">>

Case03(data, length, t) ==
    IF length >= 2 /\ At(data, 1) < 5
    THEN Upd([t EXCEPT !.battery_type = Strncpy(chemistry[At(data, 1) + 1], 16 - 1)])
    ELSE NoUpd(t)

\* logs data[1], data[2], data[3] only
Case07(data, length, t) == NoUpd(t)

\* logs data[1] and sets updated without writing a field
Case34(data, length, t) ==
    IF length >= 2 THEN Upd(t) ELSE NoUpd(t)

Case52(data, length, t) ==
    IF length >= 3
    THEN Upd([t EXCEPT !.nominal_power = F(U16(At(data, 1), At(data, 2)))])
    ELSE NoUpd(t)

\* reads data[2] whenever length >= 2
Case60(data, length, t) ==
    IF length >= 2
    THEN Upd([t EXCEPT !.firmware_version =
                DecStr(At(data, 1)) \o "." \o DecStr(At(data, 2))])
    ELSE NoUpd(t)

\* the switch (report_id) of apc_hid_parse_report
Dispatch(report_id, data, length, t) ==
    CASE report_id = \H0C -> Case0C(data, length, t)
      [] report_id = \H06 -> Case06(data, length, t)
      [] report_id = \H08 -> Case08(data, length, t)
      [] report_id = \H09 -> Case09(data, length, t)
      [] report_id = \H0B -> Case0B(data, length, t)
      [] report_id = \H0D -> Case0D(data, length, t)
      [] report_id = \H0E -> Case0E(data, length, t)
      [] report_id = \H0F -> Case0F(data, length, t)
      [] report_id = \H10 -> Case10(data, length, t)
      [] report_id = \H11 -> Case11(data, length, t)
      [] report_id = \H12 -> Case12(data, length, t)
      [] report_id = \H15 -> Case15(data, length, t)
      [] report_id = \H16 -> Case16(data, length, t)
      [] report_id = \H17 -> Case17(data, length, t)
      [] report_id = \H18 -> Case18(data, length, t)
      [] report_id = \H1C -> Case1C(data, length, t)
      [] report_id = \H20 -> Case20(data, length, t)
      [] report_id = \H13 -> Case13(data, length, t)
      [] report_id = \H14 -> Case14(data, length, t)
      [] report_id = \H24 -> Case24(data, length, t)
      [] report_id = \H21 -> Case21(data, length, t)
      [] report_id = \H25 -> Case25(data, length, t)
      [] report_id = \H30 -> Case30(data, length, t)
      [] report_id = \H31 -> Case31(data, length, t)
      [] report_id = \H32 -> Case32(data, length, t)
      [] report_id = \H33 -> Case33(data, length, t)
      [] report_id = \H50 -> Case50(data, length, t)
      [] report_id = \H35 -> Case35(data, length, t)
      [] report_id = \H36 -> Case36(data, length, t)
      [] report_id = \H03 -> Case03(data, length, t)
      [] report_id = \H07 -> Case07(data, length, t)
      [] report_id = \H34 -> Case34(data, length, t)
      [] report_id = \H52 -> Case52(data, length, t)
      [] report_id = \H60 -> Case60(data, length, t)
      [] OTHER -> NoUpd(t)

\* faulty variant of Finish: the epilogue withdraws validity when the decode updated nothing
Finish_ResetsValid(r, tick) ==
    IF r.updated
    THEN [m |-> [r.m EXCEPT !.last_update_ms = tick,
                            !.valid = TRUE,
                            !.status_string = apc_hid_format_status(r.m.status)],
          updated |-> TRUE]
    ELSE [m |-> [r.m EXCEPT !.valid = FALSE], updated |-> FALSE]

\* faulty variant of Finish: the status string is not recomputed
Finish_KeepsStatusString(r, tick) ==
    IF r.updated
    THEN [m |-> [r.m EXCEPT !.last_update_ms = tick, !.valid = TRUE],
          updated |-> TRUE]
    ELSE r

\* if (updated) { last_update_ms, valid, status_string }
Finish(r, tick) ==
    IF r.updated
    THEN [m |-> [r.m EXCEPT !.last_update_ms = tick,
                            !.valid = TRUE,
                            !.status_string = apc_hid_format_status(r.m.status)],
          updated |-> TRUE]
    ELSE r

\* faulty variant of apc_hid_parse_report: the default branch of the switch
\* reports an update for the identifiers above the table
apc_hid_parse_report_DefaultUpdates(report_id, data, length, t, tick) ==
    IF length = 0 THEN NoUpd(t)
    ELSE Finish([Dispatch(report_id, data, length, t)
                    EXCEPT !.updated = @ \/ report_id > \H60], tick)

\* apc_hid_parse_report(report_id, data, length, metrics) on target t at tick
apc_hid_parse_report(report_id, data, length, t, tick) ==
    IF length = 0 THEN NoUpd(t)
    ELSE Finish(Dispatch(report_id, data, length, t), tick)

(***************************************************************************)
(* Which fields a switch case assigns: the case is run on two targets that *)
(* differ in every field, and a field is assigned when both results agree. *)
(***************************************************************************)
StatusFlags == DOMAIN NoStatus

\* fields of ups_metrics_t that the epilogue of the decoder does not write
DataFields == DOMAIN InitMetrics \ {"status", "status_string", "last_update_ms", "valid"}

\* the char[] fields of ups_metrics_t
StringFields ==
    {"battery_type", "battery_mfr_date", "input_sensitivity",
     "last_transfer_reason", "firmware_version", "driver_name", "driver_state",
     "driver_version", "beeper_status", "self_test_result",
     "power_failure_status", "status_string"}

ProbeA ==
    [f \in DOMAIN InitMetrics |->
        IF f = "status" THEN [g \in StatusFlags |-> FALSE]
        ELSE IF f = "valid" THEN FALSE
        ELSE IF f \in StringFields THEN "?A" ELSE -7]

ProbeB ==
    [f \in DOMAIN InitMetrics |->
        IF f = "status" THEN [g \in StatusFlags |-> TRUE]
        ELSE IF f = "valid" THEN TRUE
        ELSE IF f \in StringFields THEN "?B" ELSE -9]

WrittenFields(report_id, data, length) ==
    LET a == Dispatch(report_id, data, length, ProbeA).m
        b == Dispatch(report_id, data, length, ProbeB).m
    IN  {f \in DataFields : a[f] = b[f]} \cup {g \in StatusFlags : a.status[g] = b.status[g]}

\* the record kept of a decode
Decoded(report_id, data, length, r) ==
    [id |-> report_id, updated |-> r.updated,
     wrote |-> IF length = 0 THEN {} ELSE WrittenFields(report_id, data, length)]

NoLast == [id |-> 0, updated |-> FALSE, wrote |-> {}]

(***************************************************************************)
(* USB platform and transfer coordinator: usb_host_manager.c               *)
(***************************************************************************)
\* number of poll iterations of a completion wait (the source waits max_wait_ms / poll_interval_ms)
MaxWaitPolls == 2
\* number of non-nominal events the environment may produce: a platform call
\* that fails, a transfer that is slow or ends badly, a device unplugged
MaxFaults == 1
\* number of devices attached in a behaviour
MaxAttach == 1
\* number of iterations of the loop of usb_host_task
MaxLoops == 2
\* number of calls a context of SpecXfer makes
MaxCalls == 2

APC_VID == \H051D
APC_PID == \H0002
poll_interval_ms == 10
max_wait_ms == MaxWaitPolls * poll_interval_ms
MAX_ERRORS == 10

\* the calling contexts: 1 is usb_host_task (the reader of SpecXfer), 2 the requester of SpecXfer
Ctx == {1, 2}

\* usb_transfer_status_t
Statuses ==
    {"COMPLETED", "ERROR", "TIMED_OUT", "CANCELED", "STALL", "OVERFLOW",
     "SKIPPED", "NO_DEVICE"}

\* idVendor and idProduct of the devices the environment attaches
VidPids == {<<APC_VID, APC_PID>>, <<APC_VID, 3>>, <<\H046D, APC_PID>>}

\* identifiers the device pushes on the interrupt endpoint
PushedIds == {\H06, \H0C, \H16, \H7F}

\* poll_reports[] of usb_host_task
poll_reports ==
    <<\H09, \H31, \H50, \H08, \H0E, \H0F, \H11, \H24, \H17, \H03, \H07,
      \H20, \H30, \H32, \H33, \H34, \H35, \H36, \H52, \H15, \H10, \H18>>

num_poll_reports == Len(poll_reports)

\* a size_t holds 32 bits: the value is kept by its signed representative,
\* so that 0 - 8 is -8 and stands for 2^32 - 8
SizeSub(a, b) == a - b

\* unsigned comparisons of a size_t with a small non-negative bound
SizeGtZero(a) == a # 0
SizeLeq(a, b) == a >= 0 /\ a <= b

\* the bytes a device answers with: the identifier, then n - 1 payload bytes
DevReport(rid, n, v) == [k \in 1..n |-> IF k = 1 THEN rid ELSE v]

\* memcpy(buffer, src, n) into a buffer of BufLen modelled bytes
Memcpy(buffer, src, n) ==
    [k \in 1..BufLen |-> IF k <= n /\ k <= Len(src) THEN src[k] ELSE buffer[k]]

\* usb_host_transfer_free: a transfer that the platform still owns stays
\* known to the platform, which will complete it into freed memory
Free(x, t) ==
    IF x[t].st \in {"alloc", "cb"}
    THEN [u \in DOMAIN x \ {t} |-> x[u]]
    ELSE [x EXCEPT ![t].freed = TRUE]

\* a transfer slot not in use
NewXfer(x) == CHOOSE t \in 1..(Cardinality(DOMAIN x) + 1) : t \notin DOMAIN x

\* usb_host_lib_handle_events: the library turns finished control transfers
\* into client events
LibHandleEvents(x) ==
    [t \in DOMAIN x |-> IF x[t].st = "hwdone" THEN [x[t] EXCEPT !.st = "done"] ELSE x[t]]

\* faulty variant of ClientEventCb: DEV_GONE leaves the session as it is
ClientEventCb_KeepsHandle(ev, oc, s) ==
    IF ev.type = "NEW_DEV"
    THEN IF oc = "open_fail" \/ ~s.devs[ev.h].present THEN s
         ELSE IF oc = "desc_fail" THEN s
         ELSE IF s.devs[ev.h].vid = APC_VID /\ s.devs[ev.h].pid = APC_PID
              THEN [dev |-> ev.h, conn |-> TRUE,
                    devs |-> [s.devs EXCEPT ![ev.h].open = TRUE,
                                            ![ev.h].claimed = (oc = "ok")]]
              ELSE s
    ELSE s

\* faulty variant of ClientEventCb: DEV_GONE clears the session whatever
\* handle it names
ClientEventCb_AnyGone(ev, oc, s) ==
    IF ev.type = "NEW_DEV"
    THEN IF oc = "open_fail" \/ ~s.devs[ev.h].present THEN s
         ELSE IF oc = "desc_fail" THEN s
         ELSE IF s.devs[ev.h].vid = APC_VID /\ s.devs[ev.h].pid = APC_PID
              THEN [dev |-> ev.h, conn |-> TRUE,
                    devs |-> [s.devs EXCEPT ![ev.h].open = TRUE,
                                            ![ev.h].claimed = (oc = "ok")]]
              ELSE s
    ELSE [s EXCEPT !.dev = 0, !.conn = FALSE]

\* faulty variant of ClientEventCb: only idProduct is compared
ClientEventCb_ProductOnly(ev, oc, s) ==
    IF ev.type = "NEW_DEV"
    THEN IF oc = "open_fail" \/ ~s.devs[ev.h].present THEN s
         ELSE IF oc = "desc_fail" THEN s
         ELSE IF s.devs[ev.h].pid = APC_PID
              THEN [dev |-> ev.h, conn |-> TRUE,
                    devs |-> [s.devs EXCEPT ![ev.h].open = TRUE,
                                            ![ev.h].claimed = (oc = "ok")]]
              ELSE s
    ELSE IF ev.h = s.dev
         THEN [s EXCEPT !.dev = 0, !.conn = FALSE]
         ELSE s

\* usb_host_client_event_cb for one event message; oc is the outcome of the
\* platform calls it makes
ClientEventCb(ev, oc, s) ==
    IF ev.type = "NEW_DEV"
    THEN IF oc = "open_fail" \/ ~s.devs[ev.h].present THEN s
         ELSE IF oc = "desc_fail" THEN s
         ELSE IF s.devs[ev.h].vid = APC_VID /\ s.devs[ev.h].pid = APC_PID
              THEN [dev |-> ev.h, conn |-> TRUE,
                    devs |-> [s.devs EXCEPT ![ev.h].open = TRUE,
                                            ![ev.h].claimed = (oc = "ok")]]
              ELSE s
    ELSE IF ev.h = s.dev
         THEN [s EXCEPT !.dev = 0, !.conn = FALSE]
         ELSE s

RECURSIVE ApplyEvents(_, _, _)
ApplyEvents(q, oc, s) ==
    IF q = <<>> THEN s
    ELSE ApplyEvents(Tail(q), oc, ClientEventCb(Head(q), oc, s))

\* transfer_callback for every finished transfer; a transfer freed while in
\* flight runs its callback on freed memory, which may or may not signal
TransferCallbacks(x, sem, fire) ==
    LET done == {t \in DOMAIN x : x[t].st = "done"}
        live == {t \in done : ~x[t].freed}
        stale == done \ live
    IN  [xfers |-> [t \in DOMAIN x \ stale |->
                       IF t \in live THEN [x[t] EXCEPT !.st = "cb"] ELSE x[t]],
         sem |-> IF sem # "NULL" /\ (live # {} \/ (stale # {} /\ fire))
                 THEN "GIVEN" ELSE sem]

\* usb_host_client_handle_events: the possible results of one call
ClientHandleEvents(x, sem, q, s, f) ==
    LET hasNew == \E k \in 1..Len(q) : q[k].type = "NEW_DEV"
        ocs == IF hasNew /\ f < MaxFaults
               THEN {"ok", "open_fail", "desc_fail", "claim_fail"} ELSE {"ok"}
        fires == IF \E t \in DOMAIN x : x[t].st = "done" /\ x[t].freed
                 THEN BOOLEAN ELSE {TRUE}
    IN  { [xfers |-> TransferCallbacks(x, sem, fire).xfers,
           sem |-> TransferCallbacks(x, sem, fire).sem,
           s |-> ApplyEvents(q, oc, s),
           faults |-> IF oc = "ok" THEN f ELSE f + 1,
           handled |-> q # <<>> \/ \E t \in DOMAIN x : x[t].st = "done"] :
          oc \in ocs, fire \in fires }

\* the session state as the callback sees it
Sess == [dev |-> ups_device, conn |-> ups_connected, devs |-> devs]

\* the outcomes of taking the semaphore, allocating and submitting a
\* transfer of the given kind: those the session state forces (base) and
\* those that are faults of the platform
BaseOutcomes(kind) ==
    IF ups_device = 0 THEN {"submit_fail"}
    ELSE IF ~devs[ups_device].present THEN {"ok", "submit_fail"}
    ELSE IF kind = "intr" /\ ~devs[ups_device].claimed THEN {"submit_fail"}
    ELSE {"ok"}

SubmitOutcomes(kind) ==
    BaseOutcomes(kind) \cup
    (IF faults < MaxFaults
     THEN {"alloc_fail", "submit_fail"}
          \cup (IF "ok" \in BaseOutcomes(kind) THEN {"slow"} ELSE {})
          \cup (IF transfer_done = "NULL" THEN {"sem_fail"} ELSE {})
     ELSE {})

FaultCost(kind, oc) == IF oc \in BaseOutcomes(kind) THEN 0 ELSE 1

\* esp_err_t returned when a step before the wait fails
SetupErr(oc) ==
    IF oc = "submit_fail" THEN "ESP_ERR_INVALID_ARG" ELSE "ESP_ERR_NO_MEM"

\* a transfer just submitted; one that is not slow is completed by the
\* hardware before its caller polls for the first time, a slow one at any
\* later time or never
Submitted(kind, c, rid, oc) ==
    [kind |-> kind, owner |-> c, st |-> "inflight", slow |-> (oc = "slow"),
     freed |-> FALSE, status |-> "NONE", nbytes |-> 0, rid |-> rid,
     dev |-> ups_device]

\* what the hardware can complete a transfer with
Completions(x) ==
    LET full == IF x.kind = "intr" THEN BufLen ELSE 8 + BufLen
        rids == IF x.kind = "intr" THEN PushedIds ELSE {x.rid}
        short == IF x.kind = "intr" THEN {0, 2} ELSE {0, 4, 8, 10}
        nominal == [status : {"COMPLETED"}, nbytes : {full}, rid : rids, cost : {0}]
        bad == [status : Statuses \ {"COMPLETED"}, nbytes : {0}, rid : {x.rid},
                cost : {IF x.slow THEN 0 ELSE 1}]
               \cup [status : {"COMPLETED"}, nbytes : short, rid : rids,
                     cost : {IF x.slow THEN 0 ELSE 1}]
    IN  IF ~devs[x.dev].present
        THEN {[status |-> "NO_DEVICE", nbytes |-> 0, rid |-> x.rid, cost |-> 0]}
        ELSE nominal \cup (IF x.slow \/ faults < MaxFaults THEN bad ELSE {})

\* the status, length and payload a caller reads from its transfer: those
\* of the completion once the callback has run, anything before that
Observed(x, t) ==
    IF x[t].st = "cb"
    THEN {[status |-> x[t].status, nbytes |-> x[t].nbytes, rid |-> x[t].rid]}
    ELSE [status : Statuses, nbytes : {0, BufLen}, rid : {x[t].rid}]

\* read_hid_report: esp_err_t for a completed wait
ReadStatusErr(status) ==
    IF status = "COMPLETED" THEN "ESP_OK"
    ELSE IF status = "TIMED_OUT" THEN "ESP_ERR_TIMEOUT"
    ELSE "ESP_FAIL"

\* faulty variant of GetStatusErr: the length is compared as a signed int,
\* and against the capacity only
GetStatusErr_SignedLength(status, actual_num_bytes, buffer_size) ==
    IF status = "COMPLETED"
    THEN IF SizeSub(actual_num_bytes, 8) <= buffer_size
         THEN "ESP_OK" ELSE "ESP_ERR_INVALID_SIZE"
    ELSE IF status = "STALL" THEN "ESP_ERR_NOT_SUPPORTED"
    ELSE "ESP_FAIL"

\* faulty variant of GetStatusErr: STALL is not told apart from the other statuses
GetStatusErr_StallAsFail(status, actual_num_bytes, buffer_size) ==
    IF status = "COMPLETED"
    THEN IF SizeGtZero(SizeSub(actual_num_bytes, 8))
            /\ SizeLeq(SizeSub(actual_num_bytes, 8), buffer_size)
         THEN "ESP_OK" ELSE "ESP_ERR_INVALID_SIZE"
    ELSE "ESP_FAIL"

\* get_hid_report: esp_err_t for a completed wait
GetStatusErr(status, actual_num_bytes, buffer_size) ==
    IF status = "COMPLETED"
    THEN IF SizeGtZero(SizeSub(actual_num_bytes, 8))
            /\ SizeLeq(SizeSub(actual_num_bytes, 8), buffer_size)
         THEN "ESP_OK" ELSE "ESP_ERR_INVALID_SIZE"
    ELSE IF status = "STALL" THEN "ESP_ERR_NOT_SUPPORTED"
    ELSE "ESP_FAIL"

\* faulty variant of GetTimeoutErr: the expired wait has a result of its own
GetTimeoutErr_Timeout == "ESP_ERR_TIMEOUT"

\* get_hid_report: esp_err_t when the wait expires
GetTimeoutErr == "ESP_ERR_NOT_SUPPORTED"

\* locals of a context before its first call; s0 is what the stack holds
InitLocals(s0) ==
    [report_id |-> 0, xfer |-> 0, waited_ms |-> 0, transfer_complete |-> FALSE,
     status |-> "NONE", err |-> "ESP_OK", report_len |-> 0,
     report_buffer |-> [k \in 1..BufLen |-> s0], calls |-> 0]

\* locals of an operation at its entry
Enter(l, rid) ==
    [l EXCEPT !.report_id = rid, !.xfer = 0, !.waited_ms = 0,
              !.transfer_complete = FALSE, !.status = "NONE", !.err = "ESP_OK"]

decVars == <<metrics, now, last>>
sessVars == <<ups_connected, ups_device, evq, devs>>
xferVars == <<transfer_mutex, transfer_done, xfers>>
vars ==
    <<metrics, now, last, ups_connected, ups_device, transfer_mutex,
      transfer_done, xfers, evq, devs, pc, L, task, faults, dev_val, app>>

(***************************************************************************)
(* read_hid_report, for calling context c                                  *)
(***************************************************************************)
\* faulty variant of ReadEntry: the handle is not looked at
ReadEntry_NoCheck(c) ==
    /\ pc[c] = "rd_entry"
    /\ pc' = [pc EXCEPT ![c] = "rd_lock"]
    /\ UNCHANGED <<decVars, sessVars, xferVars, L, task, faults, dev_val, app>>

\* if (ups_device == NULL) return ESP_ERR_INVALID_STATE;
ReadEntry(c) ==
    /\ pc[c] = "rd_entry"
    /\ IF ups_device = 0
       THEN /\ pc' = [pc EXCEPT ![c] = "rd_ret"]
            /\ L' = [L EXCEPT ![c].err = "ESP_ERR_INVALID_STATE"]
       ELSE /\ pc' = [pc EXCEPT ![c] = "rd_lock"]
            /\ L' = L
    /\ UNCHANGED <<decVars, sessVars, xferVars, task, faults, dev_val, app>>

\* the mutex is taken, the semaphore created, the transfer allocated and
\* submitted; a failure gives the mutex back and returns
ReadLock(c) ==
    /\ pc[c] = "rd_lock"
    /\ transfer_mutex = 0
    /\ \E oc \in SubmitOutcomes("intr") :
          /\ faults' = faults + FaultCost("intr", oc)
          /\ transfer_done' = IF oc = "sem_fail" THEN "NULL"
                              ELSE IF transfer_done = "NULL" THEN "EMPTY"
                              ELSE transfer_done
          /\ IF oc \in {"ok", "slow"}
             THEN LET t == NewXfer(xfers)
                  IN  /\ xfers' = [u \in DOMAIN xfers \cup {t} |->
                                     IF u = t THEN Submitted("intr", c, 0, oc)
                                     ELSE xfers[u]]
                      /\ transfer_mutex' = c
                      /\ pc' = [pc EXCEPT ![c] = "rd_poll"]
                      /\ L' = [L EXCEPT ![c].xfer = t]
             ELSE /\ xfers' = xfers
                  /\ transfer_mutex' = 0
                  /\ pc' = [pc EXCEPT ![c] = "rd_ret"]
                  /\ L' = [L EXCEPT ![c].err = SetupErr(oc)]
    /\ UNCHANGED <<decVars, sessVars, task, dev_val, app>>

\* one iteration of while (waited_ms < max_wait_ms && !transfer_complete),
\* and, when the semaphore is taken, the status mapping, the free and the
\* release of the mutex
ReadPoll(c) ==
    /\ pc[c] = "rd_poll"
    /\ LET t == L[c].xfer
       IN  /\ ~(xfers[t].st = "inflight" /\ ~xfers[t].slow)
           /\ \E r \in ClientHandleEvents(xfers, transfer_done, evq, Sess, faults) :
                 /\ ups_device' = r.s.dev
                 /\ ups_connected' = r.s.conn
                 /\ devs' = r.s.devs
                 /\ evq' = <<>>
                 /\ faults' = r.faults
                 /\ IF r.sem = "GIVEN"
                    THEN \E o \in Observed(r.xfers, t) :
                            /\ transfer_done' = "EMPTY"
                            /\ xfers' = Free(r.xfers, t)
                            /\ transfer_mutex' = 0
                            /\ pc' = [pc EXCEPT ![c] = "rd_ret"]
                            /\ L' = [L EXCEPT ![c] =
                                  [@ EXCEPT !.xfer = 0, !.waited_ms = 0,
                                            !.transfer_complete = TRUE,
                                            !.status = o.status,
                                            !.err = ReadStatusErr(o.status),
                                            !.report_len =
                                                IF o.status = "COMPLETED"
                                                THEN o.nbytes ELSE @,
                                            !.report_buffer =
                                                IF o.status = "COMPLETED"
                                                THEN Memcpy(@, DevReport(o.rid, o.nbytes, dev_val), o.nbytes)
                                                ELSE @]]
                    ELSE /\ transfer_done' = r.sem
                         /\ xfers' = r.xfers
                         /\ transfer_mutex' = transfer_mutex
                         /\ pc' = [pc EXCEPT ![c] =
                                     IF L[c].waited_ms + poll_interval_ms < max_wait_ms
                                     THEN "rd_poll" ELSE "rd_late"]
                         /\ L' = [L EXCEPT ![c].waited_ms = @ + poll_interval_ms]
    /\ UNCHANGED <<decVars, task, dev_val, app>>

\* one iteration of while (!transfer_complete) after the wait has expired
ReadLate(c) ==
    /\ pc[c] = "rd_late"
    /\ LET t == L[c].xfer
       IN  \E r \in ClientHandleEvents(xfers, transfer_done, evq, Sess, faults) :
              /\ ups_device' = r.s.dev
              /\ ups_connected' = r.s.conn
              /\ devs' = r.s.devs
              /\ evq' = <<>>
              /\ faults' = r.faults
              /\ IF r.sem = "GIVEN"
                 THEN /\ transfer_done' = "EMPTY"
                      /\ xfers' = Free(r.xfers, t)
                      /\ transfer_mutex' = 0
                      /\ pc' = [pc EXCEPT ![c] = "rd_ret"]
                      /\ L' = [L EXCEPT ![c] =
                                  [@ EXCEPT !.xfer = 0, !.waited_ms = 0,
                                            !.transfer_complete = TRUE,
                                            !.err = "ESP_ERR_TIMEOUT"]]
                 ELSE /\ transfer_done' = r.sem
                      /\ xfers' = r.xfers
                      /\ UNCHANGED <<transfer_mutex, pc, L>>
    /\ UNCHANGED <<decVars, task, dev_val, app>>

(***************************************************************************)
(* get_hid_report, for calling context c                                   *)
(***************************************************************************)
GetEntry(c) ==
    /\ pc[c] = "get_entry"
    /\ IF ups_device = 0
       THEN /\ pc' = [pc EXCEPT ![c] = "get_ret"]
            /\ L' = [L EXCEPT ![c].err = "ESP_ERR_INVALID_STATE"]
       ELSE /\ pc' = [pc EXCEPT ![c] = "get_lock"]
            /\ L' = L
    /\ UNCHANGED <<decVars, sessVars, xferVars, task, faults, dev_val, app>>

\* faulty variant of GetLock: a failure before the wait returns without
\* xSemaphoreGive(transfer_mutex)
GetLock_KeepsMutex(c) ==
    /\ pc[c] = "get_lock"
    /\ transfer_mutex = 0
    /\ \E oc \in SubmitOutcomes("ctrl") :
          /\ faults' = faults + FaultCost("ctrl", oc)
          /\ transfer_done' = IF oc \in {"sem_fail", "alloc_fail"} THEN transfer_done
                              ELSE IF transfer_done = "NULL" THEN "EMPTY"
                              ELSE transfer_done
          /\ IF oc \in {"ok", "slow"}
             THEN LET t == NewXfer(xfers)
                  IN  /\ xfers' = [u \in DOMAIN xfers \cup {t} |->
                                     IF u = t THEN Submitted("ctrl", c, L[c].report_id, oc)
                                     ELSE xfers[u]]
                      /\ transfer_mutex' = c
                      /\ pc' = [pc EXCEPT ![c] = "get_poll"]
                      /\ L' = [L EXCEPT ![c].xfer = t]
             ELSE /\ xfers' = xfers
                  /\ transfer_mutex' = c
                  /\ pc' = [pc EXCEPT ![c] = "get_ret"]
                  /\ L' = [L EXCEPT ![c].err = SetupErr(oc)]
    /\ UNCHANGED <<decVars, sessVars, task, dev_val, app>>

GetLock(c) ==
    /\ pc[c] = "get_lock"
    /\ transfer_mutex = 0
    /\ \E oc \in SubmitOutcomes("ctrl") :
          /\ faults' = faults + FaultCost("ctrl", oc)
          /\ transfer_done' = IF oc \in {"sem_fail", "alloc_fail"} THEN transfer_done
                              ELSE IF transfer_done = "NULL" THEN "EMPTY"
                              ELSE transfer_done
          /\ IF oc \in {"ok", "slow"}
             THEN LET t == NewXfer(xfers)
                  IN  /\ xfers' = [u \in DOMAIN xfers \cup {t} |->
                                     IF u = t THEN Submitted("ctrl", c, L[c].report_id, oc)
                                     ELSE xfers[u]]
                      /\ transfer_mutex' = c
                      /\ pc' = [pc EXCEPT ![c] = "get_poll"]
                      /\ L' = [L EXCEPT ![c].xfer = t]
             ELSE /\ xfers' = xfers
                  /\ transfer_mutex' = 0
                  /\ pc' = [pc EXCEPT ![c] = "get_ret"]
                  /\ L' = [L EXCEPT ![c].err = SetupErr(oc)]
    /\ UNCHANGED <<decVars, sessVars, task, dev_val, app>>

\* faulty variant of GetPoll: the wait loop services the client channel only
GetPoll_ClientOnly(c) ==
    /\ pc[c] = "get_poll"
    /\ LET t == L[c].xfer
       IN  /\ ~(xfers[t].st = "inflight" /\ ~xfers[t].slow)
           /\ \E r \in ClientHandleEvents(xfers, transfer_done,
                                         evq, Sess, faults) :
                 /\ ups_device' = r.s.dev
                 /\ ups_connected' = r.s.conn
                 /\ devs' = r.s.devs
                 /\ evq' = <<>>
                 /\ faults' = r.faults
                 /\ IF r.sem = "GIVEN"
                    THEN \E o \in Observed(r.xfers, t) :
                            LET e == GetStatusErr(o.status, o.nbytes, BufLen)
                                n == SizeSub(o.nbytes, 8)
                            IN  /\ transfer_done' = "EMPTY"
                                /\ xfers' = Free(r.xfers, t)
                                /\ transfer_mutex' = 0
                                /\ pc' = [pc EXCEPT ![c] = "get_ret"]
                                /\ L' = [L EXCEPT ![c] =
                                      [@ EXCEPT !.xfer = 0, !.waited_ms = 0,
                                                !.transfer_complete = TRUE,
                                                !.status = o.status,
                                                !.err = e,
                                                !.report_len =
                                                    IF o.status = "COMPLETED"
                                                    THEN n ELSE @,
                                                !.report_buffer =
                                                    IF e = "ESP_OK"
                                                    THEN Memcpy(@, DevReport(o.rid, n, dev_val), n)
                                                    ELSE @]]
                    ELSE /\ transfer_done' = r.sem
                         /\ xfers' = r.xfers
                         /\ transfer_mutex' = transfer_mutex
                         /\ pc' = [pc EXCEPT ![c] =
                                     IF L[c].waited_ms + poll_interval_ms < max_wait_ms
                                     THEN "get_poll" ELSE "get_expired"]
                         /\ L' = [L EXCEPT ![c].waited_ms = @ + poll_interval_ms]
    /\ UNCHANGED <<decVars, task, dev_val, app>>

\* one iteration of THE CRITICAL WAIT LOOP, and, when the semaphore is
\* taken, the status mapping, the free and the release of the mutex
GetPoll(c) ==
    /\ pc[c] = "get_poll"
    /\ LET t == L[c].xfer
       IN  /\ ~(xfers[t].st = "inflight" /\ ~xfers[t].slow)
           /\ \E r \in ClientHandleEvents(LibHandleEvents(xfers), transfer_done,
                                         evq, Sess, faults) :
                 /\ ups_device' = r.s.dev
                 /\ ups_connected' = r.s.conn
                 /\ devs' = r.s.devs
                 /\ evq' = <<>>
                 /\ faults' = r.faults
                 /\ IF r.sem = "GIVEN"
                    THEN \E o \in Observed(r.xfers, t) :
                            LET e == GetStatusErr(o.status, o.nbytes, BufLen)
                                n == SizeSub(o.nbytes, 8)
                            IN  /\ transfer_done' = "EMPTY"
                                /\ xfers' = Free(r.xfers, t)
                                /\ transfer_mutex' = 0
                                /\ pc' = [pc EXCEPT ![c] = "get_ret"]
                                /\ L' = [L EXCEPT ![c] =
                                      [@ EXCEPT !.xfer = 0, !.waited_ms = 0,
                                                !.transfer_complete = TRUE,
                                                !.status = o.status,
                                                !.err = e,
                                                !.report_len =
                                                    IF o.status = "COMPLETED"
                                                    THEN n ELSE @,
                                                !.report_buffer =
                                                    IF e = "ESP_OK"
                                                    THEN Memcpy(@, DevReport(o.rid, n, dev_val), n)
                                                    ELSE @]]
                    ELSE /\ transfer_done' = r.sem
                         /\ xfers' = r.xfers
                         /\ transfer_mutex' = transfer_mutex
                         /\ pc' = [pc EXCEPT ![c] =
                                     IF L[c].waited_ms + poll_interval_ms < max_wait_ms
                                     THEN "get_poll" ELSE "get_expired"]
                         /\ L' = [L EXCEPT ![c].waited_ms = @ + poll_interval_ms]
    /\ UNCHANGED <<decVars, task, dev_val, app>>

\* the else branch of if (transfer_complete): the transfer is freed at
\* once, the mutex given back and the timeout result returned
GetExpire(c) ==
    /\ pc[c] = "get_expired"
    /\ xfers' = Free(xfers, L[c].xfer)
    /\ transfer_mutex' = 0
    /\ pc' = [pc EXCEPT ![c] = "get_ret"]
    /\ L' = [L EXCEPT ![c] = [@ EXCEPT !.xfer = 0, !.err = GetTimeoutErr]]
    /\ UNCHANGED <<decVars, sessVars, transfer_done, task, faults, dev_val, app>>

\* xSemaphoreTake(transfer_mutex, pdMS_TO_TICKS(5000)) != pdTRUE
MutexTimeout(c) ==
    /\ pc[c] \in {"rd_lock", "get_lock"}
    /\ transfer_mutex # 0
    /\ pc' = [pc EXCEPT ![c] = IF pc[c] = "rd_lock" THEN "rd_ret" ELSE "get_ret"]
    /\ L' = [L EXCEPT ![c].err = "ESP_ERR_TIMEOUT"]
    /\ UNCHANGED <<decVars, sessVars, xferVars, task, faults, dev_val, app>>

(***************************************************************************)
(* Environment: the bus and the device                                     *)
(***************************************************************************)
\* a device is plugged in, at most max devices in a behaviour: the platform
\* queues NEW_DEV for the client
Attach(max) ==
    /\ Len(devs) < max
    /\ \E vp \in VidPids :
          devs' = Append(devs, [vid |-> vp[1], pid |-> vp[2], present |-> TRUE,
                                open |-> FALSE, claimed |-> FALSE])
    /\ evq' = Append(evq, [type |-> "NEW_DEV", h |-> Len(devs) + 1])
    /\ UNCHANGED <<decVars, ups_connected, ups_device, xferVars, pc, L, task,
                   faults, dev_val, app>>

EnvAttach == Attach(MaxAttach)

\* a device is unplugged: the platform queues DEV_GONE if the client has it open
EnvDetach ==
    /\ faults < MaxFaults
    /\ \E h \in 1..Len(devs) :
          /\ devs[h].present
          /\ devs' = [devs EXCEPT ![h].present = FALSE]
          /\ evq' = IF devs[h].open
                    THEN Append(evq, [type |-> "DEV_GONE", h |-> h]) ELSE evq
    /\ faults' = faults + 1
    /\ UNCHANGED <<decVars, ups_connected, ups_device, xferVars, pc, L, task,
                   dev_val, app>>

\* the hardware finishes a submitted transfer; an interrupt transfer is
\* then ready for the client, a control transfer waits for the library
HWComplete ==
    /\ \E t \in DOMAIN xfers :
          /\ xfers[t].st = "inflight"
          /\ \E k \in Completions(xfers[t]) :
                /\ xfers' = [xfers EXCEPT ![t] =
                      [@ EXCEPT !.st = IF xfers[t].kind = "intr" THEN "done" ELSE "hwdone",
                                !.status = k.status, !.nbytes = k.nbytes,
                                !.rid = k.rid]]
                /\ faults' = faults + k.cost
    /\ UNCHANGED <<decVars, sessVars, transfer_mutex, transfer_done, pc, L,
                   task, dev_val, app>>

(***************************************************************************)
(* usb_host_task, running as context 1                                     *)
(***************************************************************************)
\* faulty variant of ShouldParse: the scheduler decodes whenever the length is not zero
ShouldParse_IgnoresErr(err, report_len) == SizeGtZero(report_len)

\* if (err == ESP_OK && report_len > 0)
ShouldParse(err, report_len) == err = "ESP_OK" /\ SizeGtZero(report_len)

\* faulty variant of SweepDue: the sweep comes with every cycle after a
\* multiple of 20
SweepDue_OneLate(loop_count) == loop_count % 20 = 1

\* if (loop_count == 1 || loop_count % 20 == 0)
SweepDue(loop_count) == loop_count = 1 \/ loop_count % 20 = 0

\* faulty variant of TaskTop: read_hid_report is called whether or not a
\* device is connected
TaskTop_ReadsAlways ==
    /\ pc[1] = "top"
    /\ task.loop_count < MaxLoops
    /\ \E bad \in (IF faults < MaxFaults THEN BOOLEAN ELSE {FALSE}) :
          IF bad
          THEN /\ faults' = faults + 1
               /\ xfers' = LibHandleEvents(xfers)
               /\ task' = [task EXCEPT !.loop_count = @ + 1, !.error_count = @ + 1]
               /\ pc' = [pc EXCEPT ![1] =
                           IF task.error_count + 1 >= MAX_ERRORS THEN "deleted" ELSE "top"]
               /\ UNCHANGED <<sessVars, transfer_done, L>>
          ELSE \E r \in ClientHandleEvents(LibHandleEvents(xfers), transfer_done,
                                           evq, Sess, faults) :
                  /\ faults' = r.faults
                  /\ xfers' = r.xfers
                  /\ transfer_done' = r.sem
                  /\ ups_device' = r.s.dev
                  /\ ups_connected' = r.s.conn
                  /\ devs' = r.s.devs
                  /\ evq' = <<>>
                  /\ task' = [task EXCEPT !.loop_count = @ + 1,
                                          !.error_count = IF r.handled THEN 0 ELSE @]
                  /\ IF TRUE
                     THEN /\ pc' = [pc EXCEPT ![1] = "rd_entry"]
                          /\ L' = [L EXCEPT ![1] = Enter(@, 0)]
                     ELSE UNCHANGED <<pc, L>>
    /\ UNCHANGED <<decVars, transfer_mutex, dev_val, app>>

\* faulty variant of TaskTopUpTo: a call that returns ESP_ERR_TIMEOUT resets
\* the error count as a call that returns ESP_OK does
TaskTopUpTo_ResetsOnTimeout(limit) ==
    /\ pc[1] = "top"
    /\ task.loop_count < limit
    /\ \E bad \in (IF faults < MaxFaults THEN BOOLEAN ELSE {FALSE}) :
          IF bad
          THEN /\ faults' = faults + 1
               /\ xfers' = LibHandleEvents(xfers)
               /\ task' = [task EXCEPT !.loop_count = @ + 1, !.error_count = @ + 1]
               /\ pc' = [pc EXCEPT ![1] =
                           IF task.error_count + 1 >= MAX_ERRORS THEN "deleted" ELSE "top"]
               /\ UNCHANGED <<sessVars, transfer_done, L>>
          ELSE \E r \in ClientHandleEvents(LibHandleEvents(xfers), transfer_done,
                                           evq, Sess, faults) :
                  /\ faults' = r.faults
                  /\ xfers' = r.xfers
                  /\ transfer_done' = r.sem
                  /\ ups_device' = r.s.dev
                  /\ ups_connected' = r.s.conn
                  /\ devs' = r.s.devs
                  /\ evq' = <<>>
                  /\ task' = [task EXCEPT !.loop_count = @ + 1,
                                          !.error_count = 0]
                  /\ IF r.s.conn /\ r.s.dev # 0
                     THEN /\ pc' = [pc EXCEPT ![1] = "rd_entry"]
                          /\ L' = [L EXCEPT ![1] = Enter(@, 0)]
                     ELSE UNCHANGED <<pc, L>>
    /\ UNCHANGED <<decVars, transfer_mutex, dev_val, app>>

\* top of while (1): loop_count++, library events, client events, the error
\* count, and the test of ups_connected && ups_device != NULL; cycles are
\* followed up to cycle number limit
TaskTopUpTo(limit) ==
    /\ pc[1] = "top"
    /\ task.loop_count < limit
    /\ \E bad \in (IF faults < MaxFaults THEN BOOLEAN ELSE {FALSE}) :
          IF bad
          THEN /\ faults' = faults + 1
               /\ xfers' = LibHandleEvents(xfers)
               /\ task' = [task EXCEPT !.loop_count = @ + 1, !.error_count = @ + 1]
               /\ pc' = [pc EXCEPT ![1] =
                           IF task.error_count + 1 >= MAX_ERRORS THEN "deleted" ELSE "top"]
               /\ UNCHANGED <<sessVars, transfer_done, L>>
          ELSE \E r \in ClientHandleEvents(LibHandleEvents(xfers), transfer_done,
                                           evq, Sess, faults) :
                  /\ faults' = r.faults
                  /\ xfers' = r.xfers
                  /\ transfer_done' = r.sem
                  /\ ups_device' = r.s.dev
                  /\ ups_connected' = r.s.conn
                  /\ devs' = r.s.devs
                  /\ evq' = <<>>
                  /\ task' = [task EXCEPT !.loop_count = @ + 1,
                                          !.error_count = IF r.handled THEN 0 ELSE @]
                  /\ IF r.s.conn /\ r.s.dev # 0
                     THEN /\ pc' = [pc EXCEPT ![1] = "rd_entry"]
                          /\ L' = [L EXCEPT ![1] = Enter(@, 0)]
                     ELSE UNCHANGED <<pc, L>>
    /\ UNCHANGED <<decVars, transfer_mutex, dev_val, app>>

TaskTop == TaskTopUpTo(MaxLoops)

\* read_hid_report has returned: the pushed report is decoded on success,
\* then the sweep starts if it is due
AfterRead ==
    /\ pc[1] = "rd_ret"
    /\ LET l == L[1]
           r == apc_hid_parse_report(l.report_buffer[1], l.report_buffer,
                                     l.report_len, metrics, now + 1)
       IN  IF ShouldParse(l.err, l.report_len)
           THEN /\ metrics' = r.m
                /\ now' = now + 1
                /\ last' = Decoded(l.report_buffer[1], l.report_buffer, l.report_len, r)
           ELSE UNCHANGED decVars
    /\ IF SweepDue(task.loop_count)
       THEN /\ pc' = [pc EXCEPT ![1] = "get_entry"]
            /\ L' = [L EXCEPT ![1] = Enter(@, poll_reports[1])]
            /\ task' = [task EXCEPT !.i = 0]
       ELSE /\ pc' = [pc EXCEPT ![1] = "top"]
            /\ UNCHANGED <<L, task>>
    /\ UNCHANGED <<sessVars, xferVars, faults, dev_val, app>>

\* faulty variant of AfterGet: a request that fails ends the sweep
AfterGet_StopsOnError ==
    /\ pc[1] = "get_ret"
    /\ LET l == L[1]
           r == apc_hid_parse_report(l.report_id, l.report_buffer,
                                     l.report_len, metrics, now + 1)
       IN  IF ShouldParse(l.err, l.report_len)
           THEN /\ metrics' = r.m
                /\ now' = now + 1
                /\ last' = Decoded(l.report_id, l.report_buffer, l.report_len, r)
           ELSE UNCHANGED decVars
    /\ IF task.i + 1 < num_poll_reports /\ L[1].err = "ESP_OK"
       THEN /\ pc' = [pc EXCEPT ![1] = "get_entry"]
            /\ L' = [L EXCEPT ![1] = Enter(@, poll_reports[task.i + 2])]
            /\ task' = [task EXCEPT !.i = @ + 1]
       ELSE /\ pc' = [pc EXCEPT ![1] = "top"]
            /\ task' = [task EXCEPT !.i = 0]
            /\ L' = L
    /\ UNCHANGED <<sessVars, xferVars, faults, dev_val, app>>

\* faulty variant of AfterGet: the loop index advances by two
AfterGet_SkipsOne ==
    /\ pc[1] = "get_ret"
    /\ LET l == L[1]
           r == apc_hid_parse_report(l.report_id, l.report_buffer,
                                     l.report_len, metrics, now + 1)
       IN  IF ShouldParse(l.err, l.report_len)
           THEN /\ metrics' = r.m
                /\ now' = now + 1
                /\ last' = Decoded(l.report_id, l.report_buffer, l.report_len, r)
           ELSE UNCHANGED decVars
    /\ IF task.i + 2 < num_poll_reports
       THEN /\ pc' = [pc EXCEPT ![1] = "get_entry"]
            /\ L' = [L EXCEPT ![1] = Enter(@, poll_reports[task.i + 3])]
            /\ task' = [task EXCEPT !.i = @ + 2]
       ELSE /\ pc' = [pc EXCEPT ![1] = "top"]
            /\ task' = [task EXCEPT !.i = 0]
            /\ L' = L
    /\ UNCHANGED <<sessVars, xferVars, faults, dev_val, app>>

\* get_hid_report has returned for poll_reports[i]: the report is decoded
\* on success, then i++ and the next request or the end of the sweep
AfterGet ==
    /\ pc[1] = "get_ret"
    /\ LET l == L[1]
           r == apc_hid_parse_report(l.report_id, l.report_buffer,
                                     l.report_len, metrics, now + 1)
       IN  IF ShouldParse(l.err, l.report_len)
           THEN /\ metrics' = r.m
                /\ now' = now + 1
                /\ last' = Decoded(l.report_id, l.report_buffer, l.report_len, r)
           ELSE UNCHANGED decVars
    /\ IF task.i + 1 < num_poll_reports
       THEN /\ pc' = [pc EXCEPT ![1] = "get_entry"]
            /\ L' = [L EXCEPT ![1] = Enter(@, poll_reports[task.i + 2])]
            /\ task' = [task EXCEPT !.i = @ + 1]
       ELSE /\ pc' = [pc EXCEPT ![1] = "top"]
            /\ task' = [task EXCEPT !.i = 0]
            /\ L' = L
    /\ UNCHANGED <<sessVars, xferVars, faults, dev_val, app>>

(***************************************************************************)
(* main.c: simulate_ups_data_task and mqtt_publish_task                    *)
(***************************************************************************)
\* number of iterations of the loop of simulate_ups_data_task, and of
\* publications of mqtt_publish_task, in a behaviour
MaxSimSteps == 2
MaxPublish == 2

\* a ups_metrics_t of which every member is zero
ZeroMetrics ==
    [InitMetrics EXCEPT !.battery_type = "", !.driver_name = "",
                        !.driver_state = "", !.driver_version = "",
                        !.power_failure_status = ""]

\* ups_metrics_t test_metrics = { ... }, then apc_hid_format_status on it;
\* 13.7f is 1370 hundredths
test_metrics0 ==
    LET st == [NoStatus EXCEPT !.online = TRUE]
    IN  [ZeroMetrics EXCEPT !.battery_charge = F(100),
                            !.battery_voltage = 1370,
                            !.battery_runtime = F(2420),
                            !.input_voltage = F(121),
                            !.load_percent = F(14),
                            !.status = st,
                            !.valid = TRUE,
                            !.status_string = apc_hid_format_status(st)]

\* app_main has created the tasks: test_metrics is the local of
\* simulate_ups_data_task, pub the position of mqtt_publish_task and
\* published the number of publications it has made
InitApp == [test_metrics |-> test_metrics0, pub |-> "wait", published |-> 0]

\* the first bytes of (uint8_t*)&test_metrics: the IEEE 754 single
\* battery_charge = 95.0f + r, r in 0..5, stored low byte first
\* (95.0f is 0x42BE0000 and each unit up to 100.0f adds 0x00020000)
SimBytes(r) ==
    [k \in 1..BufLen |-> IF k = 3 THEN \HBE + 2 * r ELSE IF k = 4 THEN \H42 ELSE 0]

\* esp_random() % 6, and the ends of esp_random() % 10 and esp_random() % 5
SimCharge == 0..5
SimLoad == {0, 9}
SimVolt == {0, 4}

\* one iteration of while (1) of simulate_ups_data_task: the three random
\* variations, then apc_hid_parse_report(0x0C, (uint8_t*)&test_metrics,
\* sizeof(test_metrics), &test_metrics), whose target is test_metrics
SimStep ==
    /\ now < MaxSimSteps
    /\ \E r \in SimCharge, q \in SimLoad, k \in SimVolt :
          LET varied == [app.test_metrics EXCEPT
                            !.battery_charge = F(95 + r),
                            !.load_percent = F(10 + q),
                            !.input_voltage = F(118) + 50 * k]
              res == apc_hid_parse_report(\H0C, SimBytes(r), BufLen, varied, now + 1)
          IN  /\ app' = [app EXCEPT !.test_metrics = res.m]
              /\ last' = Decoded(\H0C, SimBytes(r), BufLen, res)
    /\ now' = now + 1
    /\ UNCHANGED <<metrics, sessVars, xferVars, pc, L, task, faults, dev_val>>

\* while (!mqtt_is_connected()) of mqtt_publish_task, then the discovery
\* messages
PubWait ==
    /\ app.pub = "wait"
    /\ \E connected \in BOOLEAN :
          app' = [app EXCEPT !.pub = IF connected THEN "loop" ELSE "wait"]
    /\ UNCHANGED <<decVars, sessVars, xferVars, pc, L, task, faults, dev_val>>

\* the body of while (1) of mqtt_publish_task: the metrics are published
\* when MQTT is connected and apc_hid_get_metrics()->valid is set
PubLoop ==
    /\ app.pub = "loop"
    /\ app.published < MaxPublish
    /\ \E connected \in BOOLEAN :
          app' = [app EXCEPT !.pub = "delay",
                             !.published = IF connected /\ metrics.valid
                                           THEN @ + 1 ELSE @]
    /\ UNCHANGED <<decVars, sessVars, xferVars, pc, L, task, faults, dev_val>>

\* vTaskDelay(CONFIG_MQTT_PUBLISH_INTERVAL_MS) has passed
PubWake ==
    /\ app.pub = "delay"
    /\ app' = [app EXCEPT !.pub = "loop"]
    /\ UNCHANGED <<decVars, sessVars, xferVars, pc, L, task, faults, dev_val>>

\* the state after apc_hid_parser_init and usb_host_init, before any device
Init ==
    /\ metrics = InitMetrics
    /\ now = 0
    /\ last = NoLast
    /\ ups_connected = FALSE
    /\ ups_device = 0
    /\ transfer_mutex = 0
    /\ transfer_done = "NULL"
    /\ xfers = << >>
    /\ evq = << >>
    /\ devs = << >>
    /\ pc = [c \in Ctx |-> IF c = 1 THEN "top" ELSE "idle"]
    /\ \E s0 \in ByteVals : L = [c \in Ctx |-> InitLocals(s0)]
    /\ task = [loop_count |-> 0, error_count |-> 0, i |-> 0]
    /\ faults = 0
    /\ dev_val \in ByteVals
    /\ app = InitApp

Next ==
    \/ EnvAttach
    \/ EnvDetach
    \/ HWComplete
    \/ TaskTop
    \/ ReadEntry(1)
    \/ ReadLock(1)
    \/ ReadPoll(1)
    \/ ReadLate(1)
    \/ AfterRead
    \/ GetEntry(1)
    \/ GetLock(1)
    \/ GetPoll(1)
    \/ GetExpire(1)
    \/ AfterGet

Spec == Init /\ [][Next]_vars

\* SpecFair: Spec with the scheduling of usb_host_task.  FreeRTOS runs the
\* task whenever it can take a step, and the host controller finishes a
\* transfer the device answers at once; a transfer the device is slow to
\* answer, an attach and a detach may never come.
TaskStep ==
    \/ TaskTop
    \/ ReadEntry(1) \/ ReadLock(1) \/ ReadPoll(1) \/ ReadLate(1) \/ AfterRead
    \/ GetEntry(1) \/ GetLock(1) \/ GetPoll(1) \/ GetExpire(1) \/ AfterGet

HWPrompt ==
    /\ HWComplete
    /\ \E t \in DOMAIN xfers :
          xfers[t].st = "inflight" /\ ~xfers[t].slow /\ xfers'[t].st # "inflight"

SpecFair == Init /\ [][Next]_vars /\ WF_vars(TaskStep) /\ WF_vars(HWPrompt)

(***************************************************************************)
(* SpecXfer: the two transfer operations called from two concurrent        *)
(* contexts on an established session; context 1 calls read_hid_report and *)
(* context 2 calls get_hid_report.                                         *)
(***************************************************************************)
\* identifiers context 2 requests
RequestIds == {poll_reports[1], poll_reports[3]}

XCallRead ==
    /\ pc[1] = "idle"
    /\ L[1].calls < MaxCalls
    /\ pc' = [pc EXCEPT ![1] = "rd_entry"]
    /\ L' = [L EXCEPT ![1] = [Enter(@, 0) EXCEPT !.calls = @ + 1]]
    /\ UNCHANGED <<decVars, sessVars, xferVars, task, faults, dev_val, app>>

XCallGet ==
    /\ pc[2] = "idle"
    /\ L[2].calls < MaxCalls
    /\ \E rid \in RequestIds :
          L' = [L EXCEPT ![2] = [Enter(@, rid) EXCEPT !.calls = @ + 1]]
    /\ pc' = [pc EXCEPT ![2] = "get_entry"]
    /\ UNCHANGED <<decVars, sessVars, xferVars, task, faults, dev_val, app>>

XReturn(c) ==
    /\ pc[c] \in {"rd_ret", "get_ret"}
    /\ pc' = [pc EXCEPT ![c] = "idle"]
    /\ UNCHANGED <<decVars, sessVars, xferVars, L, task, faults, dev_val, app>>

\* the session of a matching device is established and nothing has been transferred
InitXfer ==
    /\ metrics = InitMetrics
    /\ now = 0
    /\ last = NoLast
    /\ ups_connected = TRUE
    /\ ups_device = 1
    /\ transfer_mutex = 0
    /\ transfer_done = "NULL"
    /\ xfers = << >>
    /\ evq = << >>
    /\ devs = <<[vid |-> APC_VID, pid |-> APC_PID, present |-> TRUE,
                 open |-> TRUE, claimed |-> TRUE]>>
    /\ pc = [c \in Ctx |-> "idle"]
    /\ \E s0 \in ByteVals : L = [c \in Ctx |-> InitLocals(s0)]
    /\ task = [loop_count |-> 0, error_count |-> 0, i |-> 0]
    /\ faults = 0
    /\ dev_val \in ByteVals
    /\ app = InitApp

NextXfer ==
    \/ EnvDetach
    \/ HWComplete
    \/ XCallRead
    \/ XCallGet
    \/ \E c \in Ctx : XReturn(c)
    \/ ReadEntry(1)
    \/ ReadLock(1)
    \/ ReadPoll(1)
    \/ ReadLate(1)
    \/ GetEntry(2)
    \/ GetLock(2)
    \/ GetPoll(2)
    \/ GetExpire(2)
    \/ \E c \in Ctx : MutexTimeout(c)

SpecXfer == InitXfer /\ [][NextXfer]_vars

(***************************************************************************)
(* SpecStale: the two transfer operations after a request of context 2 has *)
(* timed out: get_hid_report has freed its control transfer while the      *)
(* platform had still to complete it (GetExpire), and has returned.  The   *)
(* environment's budget of non-nominal events counts from this state on.   *)
(***************************************************************************)
InitStale ==
    /\ metrics = InitMetrics
    /\ now = 0
    /\ last = NoLast
    /\ ups_connected = TRUE
    /\ ups_device = 1
    /\ transfer_mutex = 0
    /\ transfer_done = "EMPTY"
    /\ xfers = <<[Submitted("ctrl", 2, poll_reports[1], "slow") EXCEPT
                     !.freed = TRUE, !.dev = 1]>>
    /\ evq = << >>
    /\ devs = <<[vid |-> APC_VID, pid |-> APC_PID, present |-> TRUE,
                 open |-> TRUE, claimed |-> TRUE]>>
    /\ pc = [c \in Ctx |-> "idle"]
    /\ L = [c \in Ctx |->
               IF c = 2
               THEN [Enter(InitLocals(0), poll_reports[1]) EXCEPT
                        !.waited_ms = max_wait_ms, !.err = GetTimeoutErr,
                        !.calls = 1]
               ELSE InitLocals(0)]
    /\ task = [loop_count |-> 0, error_count |-> 0, i |-> 0]
    /\ faults = 0
    /\ dev_val = 255
    /\ app = InitApp

SpecStale == InitStale /\ [][NextXfer]_vars

(***************************************************************************)
(* SpecDecode: apc_hid_parse_report called on the shared snapshot with     *)
(* every identifier, every length up to BufLen and payloads over ByteVals. *)
(***************************************************************************)
KnownIds ==
    {\H0C, \H06, \H08, \H09, \H0B, \H0D, \H0E, \H0F, \H10, \H11, \H12, \H15,
     \H16, \H17, \H18, \H1C, \H20, \H13, \H14, \H24, \H21, \H25, \H30, \H31,
     \H32, \H33, \H50, \H35, \H36, \H03, \H07, \H34, \H52, \H60}

UnknownIds == {\H7F}

ReportIds == KnownIds \cup UnknownIds

\* a buffer of BufLen bytes: the identifier, payload bytes v up to length,
\* then whatever the buffer held before (s)
MkBuf(id, length, v, s) ==
    [k \in 1..BufLen |-> IF k = 1 THEN id ELSE IF k <= length THEN v ELSE s]

InitDecode ==
    /\ metrics = InitMetrics
    /\ now = 0
    /\ last = NoLast
    /\ ups_connected = FALSE
    /\ ups_device = 0
    /\ transfer_mutex = 0
    /\ transfer_done = "NULL"
    /\ xfers = << >>
    /\ evq = << >>
    /\ devs = << >>
    /\ pc = [c \in Ctx |-> "idle"]
    /\ L = [c \in Ctx |-> InitLocals(0)]
    /\ task = [loop_count |-> 0, error_count |-> 0, i |-> 0]
    /\ faults = 0
    /\ dev_val = 0
    /\ app = InitApp

Decode(id, length, v, s) ==
    /\ now < MaxDecodes
    /\ LET data == MkBuf(id, length, v, s)
           r == apc_hid_parse_report(id, data, length, metrics, now + 1)
       IN  /\ metrics' = r.m
           /\ last' = Decoded(id, data, length, r)
    /\ now' = now + 1
    /\ UNCHANGED <<sessVars, xferVars, pc, L, task, faults, dev_val, app>>

NextDecode ==
    \E id \in ReportIds, length \in 0..BufLen, v \in ByteVals, s \in ByteVals :
        Decode(id, length, v, s)

SpecDecode == InitDecode /\ [][NextDecode]_vars

(***************************************************************************)
(* SpecSession: the session alone.  Devices are plugged in and unplugged   *)
(* and usb_host_client_handle_events delivers the queued events to         *)
(* usb_host_client_event_cb; no transfer is made.                          *)
(***************************************************************************)
\* devices plugged in in one behaviour of SpecSession
MaxPlugs == 2

\* usb_host_client_handle_events with events queued
DeliverEvents ==
    /\ evq # <<>>
    /\ \E r \in ClientHandleEvents(xfers, transfer_done, evq, Sess, faults) :
          /\ faults' = r.faults
          /\ xfers' = r.xfers
          /\ transfer_done' = r.sem
          /\ ups_device' = r.s.dev
          /\ ups_connected' = r.s.conn
          /\ devs' = r.s.devs
          /\ evq' = <<>>
    /\ UNCHANGED <<decVars, transfer_mutex, pc, L, task, dev_val, app>>

NextSession ==
    \/ Attach(MaxPlugs)
    \/ EnvDetach
    \/ DeliverEvents

SpecSession == Init /\ [][NextSession]_vars

(***************************************************************************)
(* SpecReattach: from an established session, the task delivers events and *)
(* calls read_hid_report and get_hid_report one after the other while the  *)
(* device is unplugged and devices are plugged in.                         *)
(***************************************************************************)
NextReattach ==
    \/ EnvDetach
    \/ Attach(MaxPlugs)
    \/ HWComplete
    \/ pc[1] = "idle" /\ pc[2] = "idle" /\ DeliverEvents
    \/ pc[2] = "idle" /\ XCallRead
    \/ pc[1] = "idle" /\ XCallGet
    \/ \E c \in Ctx : XReturn(c)
    \/ ReadEntry(1)
    \/ ReadLock(1)
    \/ ReadPoll(1)
    \/ ReadLate(1)
    \/ GetEntry(2)
    \/ GetLock(2)
    \/ GetPoll(2)
    \/ GetExpire(2)

SpecReattach == InitXfer /\ [][NextReattach]_vars

(***************************************************************************)
(* SpecCadence: usb_host_task around its cycles 1, 20 and 40, with a       *)
(* platform and a device that do not fail.  The cycles before cycle 19 and *)
(* cycle 39 have passed without a device.                                  *)
(***************************************************************************)
\* loop_count when a behaviour starts, and the last cycle followed
StartCycles == {0, 19, 39}
LastCycle == 42

InitCadence ==
    /\ metrics = InitMetrics
    /\ now = 0
    /\ last = NoLast
    /\ ups_connected = FALSE
    /\ ups_device = 0
    /\ transfer_mutex = 0
    /\ transfer_done = "NULL"
    /\ xfers = << >>
    /\ evq = << >>
    /\ devs = << >>
    /\ pc = [c \in Ctx |-> IF c = 1 THEN "top" ELSE "idle"]
    /\ L = [c \in Ctx |-> InitLocals(0)]
    /\ \E n \in StartCycles : task = [loop_count |-> n, error_count |-> 0, i |-> 0]
    /\ faults = MaxFaults
    /\ dev_val = 255
    /\ app = InitApp

NextCadence ==
    \/ EnvAttach
    \/ HWComplete
    \/ (task.loop_count + 1) % 20 <= MaxLoops /\ TaskTopUpTo(LastCycle)
    \/ ReadEntry(1)
    \/ ReadLock(1)
    \/ ReadPoll(1)
    \/ AfterRead
    \/ GetEntry(1)
    \/ GetLock(1)
    \/ GetPoll(1)
    \/ AfterGet

SpecCadence == InitCadence /\ [][NextCadence]_vars

(***************************************************************************)
(* SpecSim: usb_host_init has failed, app_main has started                 *)
(* simulate_ups_data_task in place of usb_host_task, and                   *)
(* mqtt_publish_task.  FreeRTOS runs each task whenever it can take a step. *)
(***************************************************************************)
InitSim ==
    /\ metrics = InitMetrics
    /\ now = 0
    /\ last = NoLast
    /\ ups_connected = FALSE
    /\ ups_device = 0
    /\ transfer_mutex = 0
    /\ transfer_done = "NULL"
    /\ xfers = << >>
    /\ evq = << >>
    /\ devs = << >>
    /\ pc = [c \in Ctx |-> "idle"]
    /\ L = [c \in Ctx |-> InitLocals(0)]
    /\ task = [loop_count |-> 0, error_count |-> 0, i |-> 0]
    /\ faults = 0
    /\ dev_val = 0
    /\ app = InitApp

NextSim == SimStep \/ PubWait \/ PubLoop \/ PubWake

SpecSim ==
    /\ InitSim
    /\ [][NextSim]_vars
    /\ WF_vars(SimStep) /\ WF_vars(PubWait) /\ WF_vars(PubLoop) /\ WF_vars(PubWake)

(***************************************************************************)
(* SpecErrors: usb_host_task after usb_host_client_handle_events has       *)
(* failed in each of its first MAX_ERRORS - 1 cycles: one more failure     *)
(* ends the task.  The environment's budget of non-nominal events counts   *)
(* from this state on; the cycles followed make no sweep.                  *)
(***************************************************************************)
\* the last cycle followed
LastErrorCycle == 11

InitErrors ==
    /\ metrics = InitMetrics
    /\ now = 0
    /\ last = NoLast
    /\ ups_connected = FALSE
    /\ ups_device = 0
    /\ transfer_mutex = 0
    /\ transfer_done = "NULL"
    /\ xfers = << >>
    /\ evq = << >>
    /\ devs = << >>
    /\ pc = [c \in Ctx |-> IF c = 1 THEN "top" ELSE "idle"]
    /\ \E s0 \in ByteVals : L = [c \in Ctx |-> InitLocals(s0)]
    /\ task = [loop_count |-> MAX_ERRORS - 1, error_count |-> MAX_ERRORS - 1,
               i |-> 0]
    /\ faults = 0
    /\ dev_val \in ByteVals
    /\ app = InitApp

NextErrors ==
    \/ EnvAttach
    \/ EnvDetach
    \/ HWComplete
    \/ TaskTopUpTo(LastErrorCycle)
    \/ ReadEntry(1)
    \/ ReadLock(1)
    \/ ReadPoll(1)
    \/ ReadLate(1)
    \/ AfterRead

SpecErrors == InitErrors /\ [][NextErrors]_vars

(***************************************************************************)
(* SpecReport: usb_host_task hands a report it holds in report_buffer to   *)
(* apc_hid_parse_report.  The first payload byte ranges over every byte    *)
(* value; the snapshot is the one of apc_hid_parser_init or one that       *)
(* earlier reports have filled.                                            *)
(***************************************************************************)
\* reports decoded in one behaviour of SpecReport
MaxReports == 1

\* values of data[1], and of the pair data[2], data[3]
Byte == 0..255
BytePairs ==
    {<<0, 0>>, <<\H10, \H0E>>, <<0, 1>>, <<0, 2>>, <<0, 5>>, <<0, 8>>,
     <<0, 10>>, <<255, 255>>}

\* identifiers of the reports handed over
ValueIds == {\H0C, \H06, \H16, \H0E, \H36, \H03, \H10, \H18, \H21, \H35}

\* report_buffer holding the report {id, b1, b2, b3, 0, ...}
Report(id, b1, b2, b3) ==
    [k \in 1..BufLen |->
        CASE k = 1 -> id [] k = 2 -> b1 [] k = 3 -> b2 [] k = 4 -> b3 [] OTHER -> 0]

\* reports that fill the snapshot before a behaviour starts
FillReports ==
    <<Report(\H16, 255, 0, 0), Report(\H36, 60, 0, 0), Report(\H03, 1, 0, 0),
      Report(\H10, 1, 0, 0), Report(\H18, 1, 0, 0), Report(\H21, 1, 0, 0),
      Report(\H35, 1, 0, 0), Report(\H11, 10, 0, 0), Report(\H0C, 50, \H10, \H0E)>>

\* the snapshot after the first k reports of FillReports, decoded at ticks 1..k
RECURSIVE ParseAll(_)
ParseAll(k) ==
    IF k = 0 THEN InitMetrics
    ELSE apc_hid_parse_report(FillReports[k][1], FillReports[k], 4,
                              ParseAll(k - 1), k).m

FilledMetrics == ParseAll(Len(FillReports))

InitReport ==
    /\ \/ metrics = InitMetrics /\ now = 0
       \/ metrics = FilledMetrics /\ now = Len(FillReports)
    /\ last = NoLast
    /\ ups_connected = FALSE
    /\ ups_device = 0
    /\ transfer_mutex = 0
    /\ transfer_done = "NULL"
    /\ xfers = << >>
    /\ evq = << >>
    /\ devs = << >>
    /\ pc = [c \in Ctx |-> "idle"]
    /\ L = [c \in Ctx |-> InitLocals(0)]
    /\ task = [loop_count |-> 0, error_count |-> 0, i |-> 0]
    /\ faults = 0
    /\ dev_val = 0
    /\ app = InitApp

\* apc_hid_parse_report(report_buffer[0], report_buffer, report_len, NULL) on
\* a report of report_len > 0 bytes
ParseReport(data, length) ==
    /\ length > 0
    /\ LET r == apc_hid_parse_report(data[1], data, length, metrics, now + 1)
       IN  /\ metrics' = r.m
           /\ last' = Decoded(data[1], data, length, r)
    /\ now' = now + 1
    /\ L' = [L EXCEPT ![1].report_buffer = data, ![1].report_len = length,
                      ![1].calls = @ + 1]
    /\ UNCHANGED <<sessVars, xferVars, pc, task, faults, dev_val, app>>

NextReport ==
    /\ L[1].calls < MaxReports
    /\ \E id \in ValueIds, b1 \in Byte, b23 \in BytePairs, length \in {4, BufLen} :
            ParseReport(Report(id, b1, b23[1], b23[2]), length)

SpecReport == InitReport /\ [][NextReport]_vars

(***************************************************************************)
(* SpecRepeat: the device sends the same report again and again: a report  *)
(* of any identifier and length with payload over ByteVals is decoded, and *)
(* then decoded again from the unchanged report_buffer.                    *)
(***************************************************************************)
\* number of times the report is decoded
MaxRepeats == 2

NextRepeat ==
    \/ /\ L[1].calls = 0
       /\ \E id \in ReportIds, length \in 1..BufLen, v \in ByteVals, s \in ByteVals :
               ParseReport(MkBuf(id, length, v, s), length)
    \/ /\ L[1].calls >= 1
       /\ L[1].calls < MaxRepeats
       /\ ParseReport(L[1].report_buffer, L[1].report_len)

SpecRepeat == InitReport /\ [][NextRepeat]_vars

(***************************************************************************)
(* Properties of the transfer coordinator                                  *)
(***************************************************************************)
\* transfers submitted to the USB platform that it has not completed
InFlight == {t \in DOMAIN xfers : xfers[t].st = "inflight"}

\* C1: with read_hid_report and get_hid_report called from two concurrent
\* contexts, at most one transfer is in flight in every reachable state.
C1_AtMostOneInFlight == Cardinality(InFlight) <= 1

\* C2: a submitted transfer is freed only after its completion callback
\* has been observed by the caller: no transfer is ever freed while the
\* platform has still to complete it or to run its callback.
C2_FreedOnlyAfterCallback == \A t \in DOMAIN xfers : ~xfers[t].freed

\* C3: the validity flag of the shared snapshot is monotonic: no step of
\* the scheduler, whatever the transfer outcome or the decode, takes it
\* from true to false.
C3_ValidMonotonic == [][metrics.valid => metrics'.valid]_vars

\* a decode that updated nothing has run on a snapshot that was already valid
C3_Witness == metrics.valid /\ last.id # 0 /\ ~last.updated

\* C4: a scheduler step whose transfer operation returned a non-success
\* outcome leaves every field of the shared snapshot unchanged: the snapshot
\* changes only in the step that follows a return of ESP_OK.
C4_FailureLeavesSnapshot ==
    [][metrics' # metrics =>
         pc[1] \in {"rd_ret", "get_ret"} /\ L[1].err = "ESP_OK"]_vars

\* a request has failed while the snapshot holds data and the length left
\* by an earlier transfer is not zero
C4_Witness ==
    /\ pc[1] = "get_ret"
    /\ L[1].err = "ESP_FAIL"
    /\ L[1].report_len > 0
    /\ metrics.valid

\* a get_hid_report that has returned after its wait ended with a completion
Completed(c) == pc[c] = "get_ret" /\ L[c].transfer_complete

\* a get_hid_report that has returned after its wait expired
Expired(c) ==
    pc[c] = "get_ret" /\ ~L[c].transfer_complete /\ L[c].waited_ms >= max_wait_ms

\* C5: get_hid_report returns ESP_ERR_NOT_SUPPORTED for a completion with
\* STALL status and ESP_FAIL for a completion with any other non-success
\* status, so the two results differ.
C5_StallDistinctFromFailure ==
    \A c \in Ctx :
        Completed(c) =>
            /\ L[c].status = "STALL" => L[c].err = "ESP_ERR_NOT_SUPPORTED"
            /\ L[c].status \notin {"STALL", "COMPLETED"} => L[c].err = "ESP_FAIL"

C5_Witness == Completed(2) /\ L[2].status = "STALL"

\* C6 as stated: success, stall and timeout are pairwise distinct results
\* of get_hid_report; a timeout result never equals the stall result.
C6_PairwiseDistinct ==
    \A c \in Ctx :
        /\ Completed(c) /\ L[c].status = "STALL" => L[c].err # "ESP_OK"
        /\ Expired(c) => L[c].err \notin {"ESP_OK", GetStatusErr("STALL", 0, BufLen)}

\* C6 amended: success differs from stall and from timeout, and a wait that
\* expires returns the very result of a stall, ESP_ERR_NOT_SUPPORTED;
\* ESP_ERR_TIMEOUT is returned only when the wait never started.
C6_TimeoutReturnsStallResult ==
    \A c \in Ctx :
        /\ Completed(c) /\ L[c].status = "STALL" => L[c].err # "ESP_OK"
        /\ Expired(c) =>
              L[c].err = GetStatusErr("STALL", 0, BufLen) /\ L[c].err # "ESP_OK"
        /\ pc[c] = "get_ret" /\ L[c].err = "ESP_ERR_TIMEOUT" =>
              ~L[c].transfer_complete /\ L[c].waited_ms = 0

C6_Witness == Expired(2)

(***************************************************************************)
(* Properties of the report decoder                                        *)
(***************************************************************************)
\* a step that runs the decoder
DecodeStep == now' = now + 1

\* C7: a decode that writes no snapshot field, the log-only identifiers
\* included, leaves the timestamp and the validity flag unchanged and
\* returns that nothing was updated.
C7_NoWriteNoUpdate ==
    [][DecodeStep /\ last'.wrote = {} =>
          /\ ~last'.updated
          /\ metrics'.last_update_ms = metrics.last_update_ms
          /\ metrics'.valid = metrics.valid]_vars

\* the fields each identifier reports, after the label of its case
FieldsOf(id) ==
    CASE id = \H0C -> {"battery_charge", "battery_runtime"}
      [] id \in {\H06, \H16} -> StatusFlags
      [] id \in {\H08, \H0B} -> {"battery_nominal_voltage"}
      [] id \in {\H09, \H0D} -> {"battery_voltage"}
      [] id = \H0F -> {"battery_warning_threshold"}
      [] id = \H10 -> {"beeper_status"}
      [] id = \H11 -> {"low_battery_charge_threshold"}
      [] id \in {\H12, \H24} -> {"low_battery_runtime_threshold"}
      [] id = \H15 -> {"shutdown_timer"}
      [] id = \H17 -> {"reboot_timer"}
      [] id = \H18 -> {"self_test_result"}
      [] id \in {\H1C, \H20} -> {"battery_mfr_date"}
      [] id = \H13 -> {"delay_before_reboot"}
      [] id = \H14 -> {"delay_before_shutdown"}
      [] id = \H21 -> {"last_transfer_reason"}
      [] id \in {\H25, \H52} -> {"nominal_power"}
      [] id = \H30 -> {"input_voltage_nominal"}
      [] id = \H31 -> {"input_voltage"}
      [] id = \H32 -> {"low_voltage_transfer"}
      [] id = \H33 -> {"high_voltage_transfer"}
      [] id = \H50 -> {"load_percent"}
      [] id = \H35 -> {"input_sensitivity"}
      [] id = \H36 -> {"input_frequency"}
      [] id = \H03 -> {"battery_type"}
      [] id = \H60 -> {"firmware_version"}
      [] OTHER -> {}

\* C8: a decode that updates changes only the fields of its identifier,
\* the timestamp, the validity flag and the status string; every other
\* measurement, categorical and status-flag field keeps its value.
C8_OnlyOwnFields ==
    [][DecodeStep /\ last'.updated =>
          /\ \A f \in DataFields \ FieldsOf(last'.id) : metrics'[f] = metrics[f]
          /\ \A g \in StatusFlags \ FieldsOf(last'.id) :
                metrics'.status[g] = metrics.status[g]]_vars

\* an updating decode has run on a snapshot that an earlier decode of
\* another identifier had filled
C8_Witness ==
    /\ last.id = \H09
    /\ last.updated
    /\ metrics.battery_voltage # 0
    /\ metrics.status.trim

\* the flags a report of identifier 0x06 carries
Flags06 == {"online", "discharging", "charging", "low_battery"}

\* C9 as stated: a successful decode of 0x06 or of 0x16 replaces all eight
\* status flags.
C9_AllEightReplaced ==
    [][DecodeStep /\ last'.updated /\ last'.id \in {\H06, \H16} =>
          StatusFlags \subseteq last'.wrote]_vars

\* C9 amended: a successful decode of 0x16 replaces all eight status flags;
\* a successful decode of 0x06 replaces online, discharging, charging and
\* low_battery and leaves overload, replace_battery, boost and trim as they were.
C9_SixReplacesFour ==
    [][DecodeStep /\ last'.updated =>
          /\ last'.id = \H16 => StatusFlags \subseteq last'.wrote
          /\ last'.id = \H06 =>
                /\ Flags06 \subseteq last'.wrote
                /\ \A g \in StatusFlags \ Flags06 :
                      metrics'.status[g] = metrics.status[g]]_vars

\* a decode of 0x06 has left the overload flag that a decode of 0x16 had set
C9_Witness ==
    /\ last.id = \H06
    /\ last.updated
    /\ ~metrics.status.online
    /\ metrics.status.overload

\* the least length at which the case of an identifier reads its payload
MinLen(id) ==
    CASE id \in {\H0C, \H06, \H1C} -> 4
      [] id \in {\H08, \H09, \H12, \H15, \H17, \H20, \H24, \H25, \H31, \H32,
                 \H33, \H07, \H52} -> 3
      [] OTHER -> 2

\* C10: for every known identifier, a payload shorter than the least
\* length of the identifier leaves the whole snapshot unchanged and the
\* decoder returns that nothing was updated; stated for every snapshot a
\* decode can still be applied to.
C10_ShortPayloadIgnored ==
    now < MaxDecodes =>
        \A id \in KnownIds, v \in ByteVals, s \in ByteVals :
            \A length \in 0..(MinLen(id) - 1) :
                apc_hid_parse_report(id, MkBuf(id, length, v, s), length, metrics, now + 1)
                    = NoUpd(metrics)

\* a short payload of 0x0C has been decoded on a valid snapshot
C10_Witness == last.id = \H0C /\ ~last.updated /\ metrics.valid


(***************************************************************************)
(* Claims C11..C20                                                         *)
(***************************************************************************)
\* every identifier the switch of apc_hid_parse_report has no case for
NotInTable == (0..255) \ KnownIds

\* C11: decoding a report whose identifier is not in the table leaves the
\* whole snapshot unchanged and reports no update, for every such
\* identifier and every length of the buffer at hand, and usb_host_task
\* goes on to its next step (the sweep or the top of the loop).
C11_UnknownIdIgnored ==
    [][(DecodeStep /\ last'.id \in NotInTable) =>
          /\ metrics' = metrics
          /\ ~last'.updated
          /\ pc[1] = "rd_ret" /\ pc'[1] \in {"get_entry", "top"}
          /\ \A id \in NotInTable, length \in 1..BufLen :
                apc_hid_parse_report(id, [L[1].report_buffer EXCEPT ![1] = id],
                                     length, metrics, now + 1) = NoUpd(metrics)]_vars

\* a pushed report with identifier 0x7F has been decoded on a valid snapshot
C11_Witness == last.id = \H7F /\ ~last.updated /\ metrics.valid

\* the report in report_buffer and its length
Buf == L[1].report_buffer
BufSize == L[1].report_len

\* C12: a report 0x0C of at least 4 bytes sets the battery charge to byte 1
\* and the runtime to byte 2 + 256 * byte 3, for every value of byte 1 and
\* the byte pairs at hand, whatever the snapshot held before.
C12_ChargeAndRuntime ==
    [][(DecodeStep /\ last'.id = \H0C /\ BufSize' >= 4) =>
          /\ last'.updated
          /\ metrics'.battery_charge = F(Buf'[2])
          /\ metrics'.battery_runtime = F(Buf'[3] + 256 * Buf'[4])]_vars

\* {0x0C, 100, 0x10, 0x0E} has been decoded: charge 100, runtime 3600
C12_Witness ==
    /\ last.id = \H0C /\ BufSize = 4
    /\ Buf[2] = 100 /\ Buf[3] = \H10 /\ Buf[4] = \H0E
    /\ metrics.battery_charge = F(100)
    /\ metrics.battery_runtime = F(3600)

\* the status byte of the report in report_buffer: data[1] of 0x16, data[3]
\* of 0x06
StatusByte == IF Buf[1] = \H16 THEN Buf[2] ELSE Buf[4]

\* a report with identifier id is decoded on a snapshot with no flag set
StatusStep(id) ==
    DecodeStep /\ metrics.status = NoStatus /\ last'.id = id /\ last'.updated

\* C13 as stated: from a snapshot with no flag set, both status reports
\* give "OL" for status byte 1, "OB" for 2 and "OL CHRG" for 5.
C13_SameBitsInBothReports ==
    [][(StatusStep(\H06) \/ StatusStep(\H16)) =>
          /\ StatusByte' = 1 => metrics'.status_string = "OL"
          /\ StatusByte' = 2 => metrics'.status_string = "OB"
          /\ StatusByte' = 5 => metrics'.status_string = "OL CHRG"]_vars

\* C13 amended: from a snapshot with no flag set, report 0x16 gives "OL"
\* for status byte 1, "OB" for 2 and "OL CHRG" for 5; report 0x06 carries
\* online in bit 3, discharging in bit 0, charging in bit 1 and low battery
\* in bit 2, so it gives "OL" for 8, "OB" for 1, "OL CHRG" for 10, "CHRG"
\* for 2 and "OB LB" for 5.
C13_BitsPerReport ==
    [][/\ StatusStep(\H16) =>
            /\ StatusByte' = 1 => metrics'.status_string = "OL"
            /\ StatusByte' = 2 => metrics'.status_string = "OB"
            /\ StatusByte' = 5 => metrics'.status_string = "OL CHRG"
       /\ StatusStep(\H06) =>
            /\ StatusByte' = 8 => metrics'.status_string = "OL"
            /\ StatusByte' = 1 => metrics'.status_string = "OB"
            /\ StatusByte' = 10 => metrics'.status_string = "OL CHRG"
            /\ StatusByte' = 2 => metrics'.status_string = "CHRG"
            /\ StatusByte' = 5 => metrics'.status_string = "OB LB"]_vars

\* report 0x06 with status byte 5 has been decoded on a snapshot with no
\* flag set
C13_Witness ==
    /\ last.id = \H06 /\ last.updated /\ StatusByte = 5
    /\ metrics.status = [NoStatus EXCEPT !.discharging = TRUE, !.low_battery = TRUE]
    /\ metrics.status_string = "OB LB"

\* the flags in the order of their tokens, and the token of each
FlagOrder ==
    <<"online", "discharging", "charging", "low_battery", "overload",
      "replace_battery", "boost", "trim">>
FlagToken ==
    [online |-> "OL", discharging |-> "OB", charging |-> "CHRG",
     low_battery |-> "LB", overload |-> "OVER", replace_battery |-> "RB",
     boost |-> "BOOST", trim |-> "TRIM"]

\* the tokens of the flags of FlagOrder[k..8] that are in the set active,
\* separated by single spaces
RECURSIVE TokenList(_, _)
TokenList(active, k) ==
    IF k > Len(FlagOrder) THEN ""
    ELSE LET rest == TokenList(active, k + 1)
         IN  IF FlagOrder[k] \notin active THEN rest
             ELSE IF rest = "" THEN FlagToken[FlagOrder[k]]
             ELSE FlagToken[FlagOrder[k]] \o " " \o rest

Active(status) == {g \in StatusFlags : status[g]}

\* C14 as stated: after a decode that updates, the status string lists the
\* token of every flag that is set, in the order OL, OB, CHRG, LB, OVER, RB,
\* BOOST, TRIM, and is "UNKNOWN" when no flag is set.
C14_EveryFlagContributes ==
    [][(DecodeStep /\ last'.updated) =>
          metrics'.status_string =
              IF Active(metrics'.status) = {} THEN "UNKNOWN"
              ELSE TokenList(Active(metrics'.status), 1)]_vars

\* C14 amended: as above, except that the first token is "OL" when online
\* is set and "OB" only when discharging is set and online is not: with
\* both set, discharging contributes no token.
C14_OnlineHidesOnBattery ==
    [][(DecodeStep /\ last'.updated) =>
          metrics'.status_string =
              IF Active(metrics'.status) = {} THEN "UNKNOWN"
              ELSE TokenList(IF metrics'.status.online
                             THEN Active(metrics'.status) \ {"discharging"}
                             ELSE Active(metrics'.status), 1)]_vars

\* report 0x16 with online, discharging and charging set has been decoded
C14_Witness ==
    /\ last.id = \H16 /\ last.updated /\ Buf[2] = 7
    /\ Active(metrics.status) = {"online", "discharging", "charging"}
    /\ metrics.status_string = "OL CHRG"

\* the report decoded by the previous step is decoded again
Repeat == DecodeStep /\ L[1].calls >= 1 /\ Buf' = Buf /\ BufSize' = BufSize

C16_Report0EWritesNothing ==
    [][(DecodeStep /\ last'.id = \H0E) =>
          /\ metrics' = metrics
          /\ ~last'.updated
          /\ last'.wrote = {}]_vars

\* report 0x0E with payload byte 20 has been decoded on a snapshot whose
\* low-battery charge threshold is 10
C16_Witness ==
    /\ last.id = \H0E /\ Buf[2] = 20
    /\ metrics = FilledMetrics
    /\ metrics.low_battery_charge_threshold = F(10)
    /\ metrics.valid

\* C17: report 0x36 with value byte 0 leaves the input frequency, the
\* timestamp, the validity flag and the rest of the snapshot unchanged and
\* reports no update; with any other value byte it stores that value as the
\* input frequency.
C17_ZeroFrequencyIgnored ==
    [][(DecodeStep /\ last'.id = \H36 /\ BufSize' >= 2) =>
          IF Buf'[2] = 0
          THEN metrics' = metrics /\ ~last'.updated
          ELSE /\ last'.updated
               /\ metrics'.input_frequency = F(Buf'[2])
               /\ metrics'.valid]_vars

\* report 0x36 with value byte 0 has been decoded on a snapshot whose input
\* frequency is 60
C17_Witness ==
    /\ last.id = \H36 /\ Buf[2] = 0 /\ ~last.updated
    /\ metrics.input_frequency = F(60)
    /\ metrics = FilledMetrics

\* the reports that carry a code of an enumeration, the field each one
\* writes and the labels of its codes 0, 1, 2, ...
Categorical == {\H03, \H10, \H18, \H21, \H35}
LabelField(id) ==
    CASE id = \H03 -> "battery_type"
      [] id = \H10 -> "beeper_status"
      [] id = \H18 -> "self_test_result"
      [] id = \H21 -> "last_transfer_reason"
      [] id = \H35 -> "input_sensitivity"
Labels(id) ==
    CASE id = \H03 -> <<"Unknown", "PbAc", "Li-ion", "NiCd", "NiMH">>
      [] id = \H10 -> <<"disabled", "enabled", "muted">>
      [] id = \H18 -> <<"No test initiated", "Test passed", "Test in progress",
                         "General test failed", "Battery failed",
                         "Deep battery test failed", "Test aborted">>
      [] id = \H21 -> <<"No transfer", "High line voltage", "Brownout",
                         "Blackout", "Small momentary sag", "Deep momentary sag",
                         "Small momentary spike", "Large momentary spike",
                         "Self test", "Input frequency out of range",
                         "Input voltage out of range">>
      [] id = \H35 -> <<"low", "medium", "high">>

\* C18: for the reports 0x03, 0x10, 0x18, 0x21 and 0x35, a code outside the
\* enumeration leaves the string field, the timestamp, the validity flag
\* and the rest of the snapshot unchanged and reports no update; a code
\* inside it stores the label of the code in the field of the report and
\* in no other field.
C18_UnknownCodeIgnored ==
    [][(DecodeStep /\ last'.id \in Categorical /\ BufSize' >= 2) =>
          LET id == last'.id
              code == Buf'[2]
          IN  IF code >= Len(Labels(id))
              THEN metrics' = metrics /\ ~last'.updated
              ELSE /\ last'.updated
                   /\ metrics'[LabelField(id)] = Labels(id)[code + 1]
                   /\ last'.wrote = {LabelField(id)}]_vars

\* report 0x03 with code 5 has been decoded on a snapshot whose battery
\* type is "PbAc"
C18_Witness ==
    /\ last.id = \H03 /\ Buf[2] = 5 /\ ~last.updated
    /\ metrics.battery_type = "PbAc"
    /\ metrics = FilledMetrics

\* context c is at the first statement of read_hid_report or get_hid_report
AtEntry(c) == pc[c] \in {"rd_entry", "get_entry"}

\* C19: when ups_device is NULL as a call of read_hid_report or
\* get_hid_report starts, the call returns ESP_ERR_INVALID_STATE in that
\* very step: the mutex is not taken, no transfer is allocated or submitted,
\* the semaphore is not touched and no event of either channel is handled.
C19_NoSessionReturnsAtOnce ==
    [][\A c \in Ctx :
          (AtEntry(c) /\ ups_device = 0 /\ pc'[c] # pc[c]) =>
              /\ pc'[c] = IF pc[c] = "rd_entry" THEN "rd_ret" ELSE "get_ret"
              /\ L'[c].err = "ESP_ERR_INVALID_STATE"
              /\ L'[c].xfer = L[c].xfer
              /\ UNCHANGED <<transfer_mutex, transfer_done, xfers, evq, devs,
                             ups_device, ups_connected, metrics>>]_vars

\* both operations have returned the no-session result with the mutex free
C19_Witness ==
    /\ ups_device = 0
    /\ pc[1] = "rd_ret" /\ L[1].err = "ESP_ERR_INVALID_STATE"
    /\ pc[2] = "get_ret" /\ L[2].err = "ESP_ERR_INVALID_STATE"
    /\ transfer_mutex = 0

\* the device has the identifiers of the APC UPS
IsApc(d) == d.vid = \H051D /\ d.pid = \H0002

\* the events delivered by the step are all attach events of other devices
OnlyOthersAttach ==
    /\ evq # <<>> /\ evq' = <<>>
    /\ \A k \in 1..Len(evq) : evq[k].type = "NEW_DEV" /\ ~IsApc(devs[evq[k].h])

\* C20: a step records a device handle only for a device whose identifiers
\* are 0x051D:0x0002, and sets the connected flag with it; no other device
\* is ever left open, and a step that delivers only attach events of other
\* devices leaves the handle and the connected flag as they were.
C20_OnlyApcCreatesSession ==
    [][/\ (ups_device' # ups_device /\ ups_device' # 0) =>
            IsApc(devs'[ups_device']) /\ ups_connected'
       /\ (ups_connected' /\ ~ups_connected) => ups_device' # ups_device
       /\ \A h \in DOMAIN devs' : devs'[h].open => IsApc(devs'[h])
       /\ OnlyOthersAttach => UNCHANGED <<ups_device, ups_connected>>]_vars

\* with the session of device 1 established, a device with the product
\* identifier of the UPS and another vendor has been plugged in and its
\* attach event delivered
C20_Witness ==
    /\ Len(devs) = 2 /\ evq = <<>>
    /\ IsApc(devs[1]) /\ devs[1].present
    /\ devs[2].vid # \H051D /\ devs[2].pid = \H0002
    /\ devs[2].present /\ ~devs[2].open
    /\ ups_device = 1 /\ ups_connected

(***************************************************************************)
(* Claims C21..C30                                                         *)
(***************************************************************************)
\* the step delivers exactly one event, a detach notification
OneGoneDelivered ==
    evq # <<>> /\ evq' = <<>> /\ Len(evq) = 1 /\ evq[1].type = "DEV_GONE"

\* C21: a detach notification that names the tracked handle clears the
\* handle and the connected flag; one that names any other handle leaves
\* both as they were.  Stated for the notifications delivered and, in every
\* state, for a notification of every handle.
C21_DetachOfTrackedOnly ==
    [][/\ OneGoneDelivered =>
            IF evq[1].h = ups_device
            THEN ups_device' = 0 /\ ~ups_connected'
            ELSE UNCHANGED <<ups_device, ups_connected>>
       /\ \A h \in DOMAIN devs :
            LET s == ClientEventCb([type |-> "DEV_GONE", h |-> h], "ok", Sess)
            IN  IF h = ups_device
                THEN s.dev = 0 /\ ~s.conn
                ELSE s.dev = ups_device /\ s.conn = ups_connected]_vars

\* the first of two UPS devices has been unplugged while the second is the
\* tracked one, and its detach notification has been delivered
C21_Witness ==
    /\ Len(devs) = 2 /\ evq = <<>>
    /\ ~devs[1].present /\ devs[1].open
    /\ ups_device = 2 /\ ups_connected

\* the attached UPS devices the client holds open with the interface claimed
Sessions ==
    {h \in DOMAIN devs :
        devs[h].present /\ IsApc(devs[h]) /\ devs[h].open /\ devs[h].claimed}

\* C22: in every state at most one attached UPS device is open with its
\* interface claimed, and that device is the tracked one.
C22_AtMostOneSession ==
    /\ Cardinality(Sessions) <= 1
    /\ \A h \in Sessions : h = ups_device

\* the detach notification of device h has been delivered to the client
GoneDeliveredIn(h, d, q) ==
    /\ ~d[h].present /\ d[h].open
    /\ \A k \in 1..Len(q) : ~(q[k].type = "DEV_GONE" /\ q[k].h = h)
GoneDelivered(h) == GoneDeliveredIn(h, devs, evq)

\* context c submits a transfer in this step
Submits(c) ==
    pc[c] \in {"rd_lock", "get_lock"} /\ pc'[c] \in {"rd_poll", "get_poll"}

\* C23: a session is not reused across a detach.  When the tracked handle
\* changes to a device, that device is one the step has just opened: it is
\* attached, its detach has not been delivered, and its interface is claimed
\* unless a platform call of the step failed.  The tracked handle never names
\* a device whose detach has been delivered, and every transfer is submitted
\* on the handle tracked at that moment, never on such a device.
C23_FreshSessionAfterDetach ==
    [][/\ (ups_device' # ups_device /\ ups_device' # 0) =>
            /\ \E k \in 1..Len(evq) :
                  evq[k].type = "NEW_DEV" /\ evq[k].h = ups_device'
            /\ ~devs[ups_device'].open /\ devs'[ups_device'].open
            /\ devs'[ups_device'].present
            /\ devs'[ups_device'].claimed \/ faults' > faults
       /\ ups_device' # 0 => ~GoneDeliveredIn(ups_device', devs', evq')
       /\ \A c \in Ctx :
            Submits(c) =>
                /\ xfers'[L'[c].xfer].dev = ups_device
                /\ ups_device # 0
                /\ ~GoneDelivered(ups_device)]_vars

\* the first device has been unplugged, a second UPS plugged in, and a
\* transfer has been submitted on the handle of the second
C23_Witness ==
    /\ Len(devs) = 2 /\ GoneDelivered(1)
    /\ ups_device = 2 /\ devs[2].open /\ devs[2].claimed
    /\ \E t \in DOMAIN xfers : xfers[t].dev = 2 /\ xfers[t].st = "inflight"

\* a cycle of usb_host_task starts: loop_count++
CycleStart == task'.loop_count = task.loop_count + 1

\* a call of read_hid_report starts only with a cycle, so at most once in a
\* cycle
ReadOncePerCycle == (pc'[1] = "rd_entry" /\ pc[1] # "rd_entry") => CycleStart

\* a call of get_hid_report starts only after read_hid_report or the
\* previous get_hid_report of the same cycle has returned, the first one
\* after read_hid_report
ReadBeforeRequests ==
    (pc'[1] = "get_entry" /\ pc[1] # "get_entry") =>
        /\ pc[1] \in {"rd_ret", "get_ret"}
        /\ task'.loop_count = task.loop_count
        /\ task'.i = 0 => pc[1] = "rd_ret"

\* C24 as stated: every cycle calls read_hid_report once, before any
\* get_hid_report of the cycle.
C24_EveryCycleReads ==
    [][/\ CycleStart => pc'[1] = "rd_entry"
       /\ ReadOncePerCycle
       /\ ReadBeforeRequests]_vars

\* C24 amended: a cycle calls read_hid_report once, before any
\* get_hid_report of the cycle, exactly when usb_host_client_handle_events
\* did not fail and a device is connected after it; any other cycle calls
\* neither.
C24_ConnectedCycleReads ==
    [][/\ CycleStart =>
            (pc'[1] = "rd_entry" <=>
                /\ ups_connected' /\ ups_device' # 0
                /\ task'.error_count <= task.error_count)
       /\ CycleStart /\ pc'[1] # "rd_entry" => pc'[1] \in {"top", "deleted"}
       /\ ReadOncePerCycle
       /\ ReadBeforeRequests]_vars

\* read_hid_report of the first cycle has returned and the first
\* get_hid_report of the cycle is about to start
C24_Witness ==
    /\ pc[1] = "get_entry" /\ task.i = 0 /\ task.loop_count = 1
    /\ ups_connected


\* a cycle number on which the sweep is scheduled: the first cycle and every
\* 20th cycle, counted from the start of the task
Scheduled(n) == n = 1 \/ n % 20 = 0

\* the step that starts the sweep of the running cycle
SweepStarts == pc[1] = "rd_ret" /\ pc'[1] = "get_entry"

\* the step that ends the running cycle with no sweep made: after the read,
\* or at the top of the loop when the cycle makes no read at all
EndsAfterRead == pc[1] = "rd_ret" /\ pc'[1] = "top"
EndsAtTop == CycleStart /\ pc'[1] # "rd_entry"

\* C25, as stated: the scheduler makes a sweep in its first cycle and in every
\* 20th cycle, and in no other cycle.
C25_SweepEveryScheduledCycle ==
    [][/\ SweepStarts => Scheduled(task.loop_count)
       /\ EndsAfterRead => ~Scheduled(task.loop_count)
       /\ EndsAtTop => ~Scheduled(task'.loop_count)]_vars

\* C25, amended: a sweep is made only in the first cycle and in every 20th
\* cycle, and in each of these cycles that reaches the pushed-report read
\* (a session is tracked at the top of the cycle); a cycle that makes no read
\* makes no sweep, scheduled or not.
C25_SweepWhenScheduledAndConnected ==
    [][/\ SweepStarts => Scheduled(task.loop_count) /\ task'.i = 0
       /\ EndsAfterRead => ~Scheduled(task.loop_count)
       /\ pc[1] # "get_entry" /\ pc'[1] = "get_entry" /\ task'.i = 0
              => pc[1] = "rd_ret"]_vars

\* C25 witness: the sweep of cycle 20 is running, and its last request is
\* about to be made
C25_Witness ==
    /\ task.loop_count = 20
    /\ pc[1] = "get_entry"
    /\ task.i = num_poll_reports - 1

\* the identifiers of the sweep list
SweepIds == {poll_reports[k] : k \in 1..num_poll_reports}

\* the step that ends a sweep
SweepEnds == pc[1] = "get_ret" /\ pc'[1] = "top"

\* C26, as stated: a finished sweep has requested every identifier of the
\* decoder's table.
C26_SweepCoversTable ==
    pc[1] = "get_ret" /\ task.i = num_poll_reports - 1 => SweepIds = KnownIds

\* C26, amended: every sweep requests the identifiers of the scheduler's own
\* list poll_reports, each exactly once and in the order of the list; the
\* list holds no identifier twice and only identifiers of the decoder's table.
C26_SweepFollowsList ==
    [][/\ pc'[1] = "get_entry" => L'[1].report_id = poll_reports[task'.i + 1]
       /\ SweepStarts => task'.i = 0
       /\ pc[1] = "get_ret" /\ pc'[1] = "get_entry" => task'.i = task.i + 1
       /\ SweepEnds => task.i = num_poll_reports - 1
       /\ Cardinality(SweepIds) = num_poll_reports
       /\ SweepIds \subseteq KnownIds]_vars

\* C26 witness: the sweep of cycle 40 has made its last request
C26_Witness ==
    /\ task.loop_count = 40
    /\ pc[1] = "get_ret"
    /\ task.i = num_poll_reports - 1
    /\ L[1].report_id = \H18

\* the step of the scheduler that follows the return of get_hid_report
GetReturns == pc[1] = "get_ret" /\ pc'[1] # "get_ret"

\* C27: whatever get_hid_report returned for one identifier of a sweep, the
\* scheduler goes on to the next identifier of the list, a sweep ends only
\* after the last identifier, and a response that arrived with ESP_OK and a
\* length above zero is decoded into the snapshot.
C27_FailureDoesNotAbortSweep ==
    [][GetReturns =>
          /\ task.i < num_poll_reports - 1 =>
                 /\ pc'[1] = "get_entry"
                 /\ task'.i = task.i + 1
                 /\ L'[1].report_id = poll_reports[task.i + 2]
          /\ pc'[1] = "top" => task.i = num_poll_reports - 1
          /\ L[1].err = "ESP_OK" /\ L[1].report_len > 0 =>
                 /\ now' = now + 1
                 /\ last'.id = L[1].report_id
                 /\ metrics' = apc_hid_parse_report(L[1].report_id,
                                    L[1].report_buffer, L[1].report_len,
                                    metrics, now + 1).m]_vars

\* C27 witness: in the first sweep the request for 0x09 has left the battery
\* voltage untouched, the response to 0x31 that followed has been decoded,
\* and the request for 0x50 is about to be made
C27_Witness ==
    /\ task.loop_count = 1
    /\ pc[1] = "get_entry"
    /\ task.i = 2
    /\ dev_val = 255
    /\ metrics.battery_voltage = InitMetrics.battery_voltage
    /\ last.id = \H31
    /\ last.updated
    /\ metrics.input_voltage # InitMetrics.input_voltage

\* the scheduler is inside a cycle
InCycle == pc[1] \notin {"top", "deleted"}

\* the scheduler is inside read_hid_report, inside get_hid_report
InRead == pc[1] \in {"rd_entry", "rd_lock", "rd_poll", "rd_late"}
InGet == pc[1] \in {"get_entry", "get_lock", "get_poll", "get_expired"}

\* C28: whatever the outcome of a read or of a request, the scheduler is not
\* terminated and comes back to the top of its loop, where the next cycle
\* starts.
C28_SchedulerGoesOn == InCycle ~> pc[1] = "top"

\* the same, for the behaviours in which read_hid_report does not stay in
\* its wait for a late callback
C28_GoesOnUnlessReadWaits == <>[](pc[1] = "rd_late") \/ C28_SchedulerGoesOn

\* C29: every call of read_hid_report and of get_hid_report returns to its
\* caller, the completion callback fired or not.
C29_CallsReturn == (InRead \/ InGet) ~> pc[1] \in {"rd_ret", "get_ret"}

\* the part of C29 about get_hid_report
C29_GetReturns == InGet ~> pc[1] = "get_ret"

\* C30: with the simulated-data task running, the snapshot returned by
\* apc_hid_get_metrics eventually becomes valid.
C30_SnapshotBecomesValid == <>(metrics.valid)

\* what holds in its place: the simulated-data task decodes into its own
\* test_metrics, the shared snapshot is never valid and nothing is published
C30_SnapshotStaysInvalid ==
    /\ ~metrics.valid
    /\ metrics = InitMetrics
    /\ app.published = 0

(***************************************************************************)
(* Claims C31..C39                                                         *)
(***************************************************************************)
\* a timer report whose 16-bit value is 0xFFFF has just been decoded
InactiveTimer(id) ==
    /\ DecodeStep
    /\ last'.id = id
    /\ BufSize' >= 3
    /\ Buf'[2] = 255
    /\ Buf'[3] = 255

\* C31: the reboot timer (0x17) and the shutdown timer (0x15) both store -1
\* when the 16-bit value of the report is 0xFFFF.
C31_InactiveTimersAreMinusOne ==
    [][/\ InactiveTimer(\H15) => metrics'.shutdown_timer = F(-1)
       /\ InactiveTimer(\H17) => metrics'.reboot_timer = F(-1)]_vars

\* the part of C31 about the shutdown timer, which is read as an int16_t
C31_ShutdownTimerIsMinusOne ==
    [][InactiveTimer(\H15) => metrics'.shutdown_timer = F(-1)]_vars

\* what the reboot timer holds in place of -1: the value read as a uint16_t
C31_RebootTimerIs65535 ==
    [][InactiveTimer(\H17) => metrics'.reboot_timer = F(65535)]_vars

\* one iteration of the wait loop of get_hid_report, of read_hid_report, made
\* by usb_host_task
GetIteration == pc[1] = "get_poll" /\ L'[1] # L[1]
ReadIteration == pc[1] = "rd_poll" /\ L'[1] # L[1]

\* transfers the hardware has finished and the library has not yet handed to
\* the client channel; transfers whose callback is due on the client channel
AtLibrary(x) == {t \in DOMAIN x : x[t].st = "hwdone"}
AtClient(x) == {t \in DOMAIN x : x[t].st = "done"}

\* C32: an iteration of the wait loop of get_hid_report services the library
\* channel and then the client channel, so that it leaves no finished
\* transfer on either and observes the completion of its own request as soon
\* as the device has answered; an iteration of the wait loop of
\* read_hid_report services the client channel only and leaves what the
\* library holds where it is.
C32_BothChannelsForRequests ==
    [][/\ GetIteration =>
             /\ AtLibrary(xfers') = {}
             /\ AtClient(xfers') = {}
             /\ xfers[L[1].xfer].st \in {"hwdone", "done"} =>
                    /\ pc'[1] = "get_ret"
                    /\ L'[1].transfer_complete
       /\ ReadIteration =>
             /\ AtLibrary(xfers') = AtLibrary(xfers)
             /\ AtClient(xfers') = {}]_vars

\* C32 witness: the device has answered a request with a full report and the
\* wait loop of get_hid_report has observed the completion
C32_Witness ==
    /\ pc[1] = "get_ret"
    /\ L[1].transfer_complete
    /\ L[1].status = "COMPLETED"
    /\ L[1].err = "ESP_OK"
    /\ L[1].report_len = BufLen

\* a finished control transfer is held by the library while read_hid_report
\* is in its wait loop
C32_ReadWhileLibraryHolds == pc[1] = "rd_poll" /\ AtLibrary(xfers) # {}

\* positions of a call between xSemaphoreTake(transfer_mutex) and the
\* xSemaphoreGive(transfer_mutex) of its return path
Holding == {"rd_poll", "rd_late", "get_poll", "get_expired"}

\* C33: the transfer mutex is held by a context exactly while that context
\* is between the take and the give of a call: a call that has returned, on
\* any path, has given the mutex back, and the mutex is free whenever no
\* call is executing.
C33_MutexReleasedOnReturn ==
    /\ transfer_mutex \in {0} \cup Ctx
    /\ \A c \in Ctx : transfer_mutex = c <=> pc[c] \in Holding

\* C33 witness: get_hid_report has taken the mutex and returned
\* ESP_ERR_NO_MEM, and read_hid_report has taken the mutex after it
C33_Witness ==
    /\ pc[2] = "get_ret"
    /\ L[2].err = "ESP_ERR_NO_MEM"
    /\ pc[1] = "rd_poll"
    /\ transfer_mutex = 1

\* context c takes transfer_done in a wait loop and leaves the loop
Consumes(c) ==
    /\ pc[c] \in {"rd_poll", "rd_late", "get_poll"}
    /\ pc'[c] \in {"rd_ret", "get_ret"}
    /\ L'[c].transfer_complete

\* C34: a call that takes transfer_done in its wait loop takes the signal of
\* its own transfer: the callback of the transfer it submitted has run, so
\* that the free that follows takes the transfer away from the platform.
C34_SignalIsOwn ==
    [][\A c \in Ctx : Consumes(c) => L[c].xfer \notin DOMAIN xfers']_vars

\* the wait loop of get_hid_report ends for context c with a transfer whose
\* status is COMPLETED
GetCompletes(c) ==
    /\ pc[c] = "get_poll"
    /\ pc'[c] = "get_ret"
    /\ L'[c].transfer_complete
    /\ L'[c].status = "COMPLETED"

\* C35: a completed request returns ESP_OK exactly when the returned length,
\* the transferred byte count minus 8, is at least 1 and at most the
\* capacity of the buffer; a byte count of 8 or less, for which the length
\* is 0 or wraps, gives ESP_ERR_INVALID_SIZE and leaves the caller's buffer
\* as it was.
C35_SuccessOnlyWithPayload ==
    [][\A c \in Ctx : GetCompletes(c) =>
          /\ L'[c].err = "ESP_OK" <=>
                (1 <= L'[c].report_len /\ L'[c].report_len <= BufLen)
          /\ L'[c].report_len <= 0 =>
                /\ L'[c].err = "ESP_ERR_INVALID_SIZE"
                /\ L'[c].report_buffer = L[c].report_buffer]_vars

\* C35 witness: a request has completed with 4 bytes transferred, the length
\* has wrapped (4 - 8) and the call has returned ESP_ERR_INVALID_SIZE
C35_Witness ==
    /\ pc[2] = "get_ret"
    /\ L[2].transfer_complete
    /\ L[2].status = "COMPLETED"
    /\ L[2].report_len = SizeSub(4, 8)
    /\ L[2].err = "ESP_ERR_INVALID_SIZE"

\* the buffer buf with every byte at an index of length or above replaced
\* by fill
Beyond(buf, length, fill) ==
    [k \in 1..BufLen |-> IF k <= length THEN buf[k] ELSE fill]

\* C36: the decoder reads payload bytes below the given length only: what a
\* decode stores does not depend on the bytes that report_buffer holds at
\* the indices of the length and above.
C36_ReadsBelowLength ==
    [][DecodeStep =>
          \A fill \in ByteVals :
              metrics' = apc_hid_parse_report(Buf'[1], Beyond(Buf', BufSize', fill),
                                              BufSize', metrics, now').m]_vars

\* the same for every identifier but 0x60
C36_ReadsBelowLengthBut60 ==
    [][DecodeStep /\ Buf'[1] # \H60 =>
          \A fill \in ByteVals :
              metrics' = apc_hid_parse_report(Buf'[1], Beyond(Buf', BufSize', fill),
                                              BufSize', metrics, now').m]_vars

\* C37: whenever the shared snapshot is valid, its status string is the
\* string apc_hid_format_status derives from its eight status flags, and
\* that is "UNKNOWN" when no flag is set.
C37_StatusStringMatchesFlags ==
    metrics.valid =>
        /\ metrics.status_string = apc_hid_format_status(metrics.status)
        /\ metrics.status = NoStatus => metrics.status_string = "UNKNOWN"

\* C37 witness: report 0x06 has changed the flags of a valid snapshot and the
\* status string tells of a UPS on battery with a low battery
C37_Witness ==
    /\ metrics.valid
    /\ last.id = \H06
    /\ last.updated
    /\ ~metrics.status.online
    /\ metrics.status.discharging
    /\ metrics.status.low_battery
    /\ metrics.status_string = "OB LB"

\* C38: whenever ups_connected is set and a handle is tracked, the HID
\* interface of the tracked device has been claimed.
C38_SessionHasClaimedInterface ==
    ups_connected /\ ups_device # 0 => devs[ups_device].claimed

\* C38, second part: the scheduler submits no transfer on a tracked device
\* whose interface was not claimed.
C38_NoTransferWithoutClaim ==
    \A t \in DOMAIN xfers :
        xfers[t].st = "inflight" /\ ~xfers[t].freed => devs[xfers[t].dev].claimed

\* usb_host_client_handle_events at the top of a cycle returns an error;
\* ESP_OK, an event or a transfer callback having been handled; or
\* ESP_ERR_TIMEOUT, nothing having been there to handle
CallFails == CycleStart /\ task'.error_count = task.error_count + 1
CallHandles ==
    /\ CycleStart
    /\ ~CallFails
    /\ evq # <<>> \/ AtLibrary(xfers) \cup AtClient(xfers) # {}
CallTimesOut ==
    /\ CycleStart
    /\ ~CallFails
    /\ evq = <<>> /\ AtLibrary(xfers) \cup AtClient(xfers) = {}

\* C39, as stated: every call that does not fail, a plain timeout included,
\* resets the failure count, so that the task is deleted only by MAX_ERRORS
\* failures in a row.
C39_AnyNonFailingCallResets ==
    [][CallHandles \/ CallTimesOut => task'.error_count = 0]_vars

\* C39, amended: the failure count is reset by a call that returns ESP_OK
\* only; a call that returns ESP_ERR_TIMEOUT leaves it as it is, a failing
\* call adds one to it, and the task deletes itself in the cycle in which
\* the count reaches MAX_ERRORS, in no other.
C39_OnlySuccessResets ==
    [][/\ CallHandles => task'.error_count = 0
       /\ CallTimesOut => task'.error_count = task.error_count
       /\ CallFails => (pc'[1] = "deleted" <=> task'.error_count >= MAX_ERRORS)
       /\ pc'[1] = "deleted" /\ pc[1] # "deleted" =>
             CallFails /\ task'.error_count = MAX_ERRORS]_vars

\* C39 witness: after MAX_ERRORS - 1 failures a cycle has passed in which the
\* call returned ESP_ERR_TIMEOUT, and one more failure has ended the task
C39_Witness ==
    /\ pc[1] = "deleted"
    /\ task.error_count = MAX_ERRORS
    /\ task.loop_count = MAX_ERRORS + 1

====
